---- MODULE Spec2Model ----
(***************************************************************************)
(* Model of the ticket composition and transport engine of                 *)
(* beasty_printer_hub (src/src/printer.js).                                *)
(*                                                                         *)
(* A JavaScript string is a sequence of Unicode code points (naturals);    *)
(* Units(s) gives its UTF-16 code units, which is what .length counts and  *)
(* what Buffer.from(s, 'binary') reads.  A Buffer is a sequence of bytes   *)
(* (0..255).  A ticket is the list `parts` the builders push to; every     *)
(* part carries the bytes pushed and a role naming the source section that *)
(* pushed it.                                                              *)
(***************************************************************************)
EXTENDS Integers, Sequences, FiniteSets, TLC

VARIABLES
    wstr,      \* SpecWrap: the str argument of wrapTextNoBreak
    wmax,      \* SpecWrap: the maxLen argument of wrapTextNoBreak
    wout,      \* SpecWrap: the returned array of lines
    wpc,       \* SpecWrap: "ready" before the call, "done" after it
    breq,      \* SpecBuild: the parameters handed to a ticket builder
    btickets,  \* SpecBuild: the tickets built (a sequence of parts lists)
    bpc,       \* SpecBuild: "ready" before the build, "done" after it
    estr,      \* SpecEscape: the str argument of escapeWifiString
    eout,      \* SpecEscape: the returned string
    epc,       \* SpecEscape: "ready" before the call, "done" after it
    sstr,      \* SpecStrip: the str argument of stripEmoji
    sout,      \* SpecStrip: the returned string
    spc,       \* SpecStrip: "ready" before the call, "done" after it
    morning,   \* SpecMorning: one run of runMorningPrint
    runner,    \* SpecRunner: one runner made by createDailyRunner
    ncalls,    \* Spec: number of engine calls made so far
    call       \* Spec: per call, its parameters, promise and socket

vars == <<wstr, wmax, wout, wpc, breq, btickets, bpc, estr, eout, epc, sstr, sout, spc, morning, runner, ncalls, call>>

-----------------------------------------------------------------------------
(* Bounds of the model *)

\* longest string handed to wrapTextNoBreak in SpecWrap
MaxStrLen == 6
\* largest maxLen handed to wrapTextNoBreak in SpecWrap
MaxWidth == 4
\* longest task list handed to a builder in SpecBuild
MaxTasks == 2
\* number of engine calls that may be in flight together in Spec
NumCalls == 2
\* longest string handed to escapeWifiString in SpecEscape
MaxEscLen == 4
\* longest string handed to stripEmoji in SpecStrip
MaxStripLen == 5
\* largest number of tasks fetchTasks gives in SpecMorning
MaxDonotick == 2
\* number of timers a runner may set in SpecRunner
MaxTimers == 5

-----------------------------------------------------------------------------
(* Program constants *)

ESC == 27
GS == 29
PAPER_WIDTH == 32
\* net.createConnection timeout option of printTasks / printWifiQr
PRINT_TIMEOUT_MS == 4000
\* net.createConnection timeout option of pingPrinter
PING_TIMEOUT_MS == 1500

-----------------------------------------------------------------------------
(* String literals of printer.js, as code points *)

\* ' * DO IT! * \n'
STR_DO_IT == <<32, 42, 32, 68, 79, 32, 73, 84, 33, 32, 42, 32, 10>>
\* ' HEUTE '
STR_HEUTE == <<32, 72, 69, 85, 84, 69, 32>>
\* ' Aufgaben\n'
STR_AUFGABEN == <<32, 65, 117, 102, 103, 97, 98, 101, 110, 10>>
\* ' WOCHENPLAN \n'
STR_WOCHENPLAN == <<32, 87, 79, 67, 72, 69, 78, 80, 76, 65, 78, 32, 10>>
\* ' OHNE DATUM '
STR_OHNE_DATUM == <<32, 79, 72, 78, 69, 32, 68, 65, 84, 85, 77, 32>>
\* 'GESAMT: '
STR_GESAMT == <<71, 69, 83, 65, 77, 84, 58, 32>>
\* ' WLAN '
STR_WLAN == <<32, 87, 76, 65, 78, 32>>
\* 'QR-Code scannen\n'
STR_QR_SCANNEN == <<81, 82, 45, 67, 111, 100, 101, 32, 115, 99, 97, 110, 110, 101, 110, 10>>
\* 'zum Verbinden\n'
STR_ZUM_VERBINDEN == <<122, 117, 109, 32, 86, 101, 114, 98, 105, 110, 100, 101, 110, 10>>
\* 'donotick:'
STR_DONOTICK == <<100, 111, 110, 111, 116, 105, 99, 107, 58>>
\* 'NA'
STR_NA == <<78, 65>>
\* 'Diese Woche'
STR_DIESE_WOCHE == <<68, 105, 101, 115, 101, 32, 87, 111, 99, 104, 101>>
\* 'WIFI:T:'
STR_WIFI_T == <<87, 73, 70, 73, 58, 84, 58>>
\* 'WPA'
STR_WPA == <<87, 80, 65>>
\* 'nopass'
STR_NOPASS == <<110, 111, 112, 97, 115, 115>>
\* ';S:'
STR_S == <<59, 83, 58>>
\* 'P:'
STR_P == <<80, 58>>
\* 'H:true;'
STR_H_TRUE == <<72, 58, 116, 114, 117, 101, 59>>
\* '] ['
STR_LABEL_SEP == <<93, 32, 91>>
\* ['So', 'Mo', 'Di', 'Mi', 'Do', 'Fr', 'Sa'], indexed from 1
dayNames == << <<83, 111>>, <<77, 111>>, <<68, 105>>, <<77, 105>>,
               <<68, 111>>, <<70, 114>>, <<83, 97>> >>

\* single characters used by the builders
CH_NL == 10
CH_SPACE == 32
CH_DQUOTE == 34
CH_QUOTE == 39
CH_LPAREN == 40
CH_RPAREN == 41
CH_COMMA == 44
CH_MINUS == 45
CH_DOT == 46
CH_ZERO == 48
CH_COLON == 58
CH_SEMI == 59
CH_EQUALS == 61
CH_LBRACKET == 91
CH_BACKSLASH == 92
CH_RBRACKET == 93

-----------------------------------------------------------------------------
(* JavaScript string and Buffer primitives *)

\* Buffer.concat / Array.prototype.join(''): the sequences of ss, in order
RECURSIVE Concat(_)
Concat(ss) == IF ss = <<>> THEN <<>> ELSE Head(ss) \o Concat(Tail(ss))

\* the UTF-16 code units of a code point
UnitsOf(cp) ==
    IF cp < 65536 THEN <<cp>>
    ELSE <<55296 + ((cp - 65536) \div 1024), 56320 + ((cp - 65536) % 1024)>>

\* the UTF-16 code units of a string
Units(str) == Concat([i \in 1..Len(str) |-> UnitsOf(str[i])])

\* String.prototype.length
StrLen(str) == Len(Units(str))

\* String.prototype.repeat for a one-character string
Repeat(ch, n) == [i \in 1..n |-> ch]

\* String(n) for a natural number n
RECURSIVE DecStr(_)
DecStr(n) ==
    IF n < 10 THEN <<CH_ZERO + n>>
    ELSE Append(DecStr(n \div 10), CH_ZERO + (n % 10))

\* String(n).padStart(2, '0')
Pad2(n) == IF n < 10 THEN <<CH_ZERO>> \o DecStr(n) ELSE DecStr(n)

\* the characters the regular expression class \s matches, which are also
\* the characters String.prototype.trim removes
IsSpace(c) ==
    \/ c \in {9, 10, 11, 12, 13, 32, 160, 5760, 8232, 8233, 8239, 8287, 12288, 65279}
    \/ (c >= 8192 /\ c <= 8202)

\* String.prototype.trim
RECURSIVE TrimStart(_)
TrimStart(str) ==
    IF str # <<>> /\ IsSpace(Head(str)) THEN TrimStart(Tail(str)) ELSE str

RECURSIVE TrimEnd(_)
TrimEnd(str) ==
    IF str # <<>> /\ IsSpace(str[Len(str)])
    THEN TrimEnd(SubSeq(str, 1, Len(str) - 1))
    ELSE str

Trim(str) == TrimEnd(TrimStart(str))

\* str.replace(/\s+/g, ' '): every maximal run of whitespace becomes one space
RECURSIVE CollapseSpaces(_)
CollapseSpaces(str) ==
    IF str = <<>> THEN <<>>
    ELSE IF IsSpace(Head(str))
         THEN <<CH_SPACE>> \o CollapseSpaces(TrimStart(str))
         ELSE <<Head(str)>> \o CollapseSpaces(Tail(str))

\* str.split(/\s+/): the pieces between maximal runs of whitespace; a leading
\* or trailing run leaves an empty first or last piece, '' gives ['']
RECURSIVE SplitFrom(_, _)
SplitFrom(str, cur) ==
    IF str = <<>> THEN <<cur>>
    ELSE IF IsSpace(Head(str))
         THEN <<cur>> \o SplitFrom(TrimStart(str), <<>>)
         ELSE SplitFrom(Tail(str), Append(cur, Head(str)))

SplitSpaces(str) == SplitFrom(str, <<>>)

\* Array.prototype.join(sep)
RECURSIVE Join(_, _)
Join(ss, sep) ==
    IF ss = <<>> THEN <<>>
    ELSE IF Len(ss) = 1 THEN ss[1]
         ELSE ss[1] \o sep \o Join(Tail(ss), sep)

\* String.prototype.toUpperCase for Basic Latin and Latin-1 letters; the
\* sharp s has no single upper-case letter and becomes 'SS'
UpperOf(c) ==
    IF c >= 97 /\ c <= 122 THEN <<c - 32>>
    ELSE IF c = 223 THEN <<83, 83>>
    ELSE IF c >= 224 /\ c <= 254 /\ c # 247 THEN <<c - 32>>
    ELSE IF c = 255 THEN <<376>>
    ELSE <<c>>

toUpperCase(str) == Concat([i \in 1..Len(str) |-> UpperOf(str[i])])

\* Buffer.from(str, 'binary') and Buffer.from(str, 'ascii'): the low byte of
\* every UTF-16 code unit
BufferFromBinary(str) ==
    LET u == Units(str) IN [i \in 1..Len(u) |-> u[i] % 256]

-----------------------------------------------------------------------------
(* LOW-LEVEL COMMANDS *)

Min(a, b) == IF a < b THEN a ELSE b
Max(a, b) == IF a > b THEN a ELSE b

init == <<ESC, 64, ESC, 116, 16>>

align(mode) ==
    <<ESC, 97, IF mode = "center" THEN 1 ELSE IF mode = "right" THEN 2 ELSE 0>>

textSize(width, height) ==
    LET w == Min(8, Max(1, width)) - 1
        h == Min(8, Max(1, height)) - 1
    IN  <<GS, 33, (w * 16) + h>>

\* emphasis ignoring its argument: the command that switches it on
emphasis_AlwaysOn(on) == <<ESC, 69, 1>>

emphasis(on) == <<ESC, 69, IF on THEN 1 ELSE 0>>

inverse(on) == <<GS, 66, IF on THEN 1 ELSE 0>>

\* the replace chain of text(): each of the seven letters is replaced by the
\* character whose code is the Windows-1252 byte of that letter
MapUmlaut(c) ==
    CASE c = 228 -> 228
      [] c = 246 -> 246
      [] c = 252 -> 252
      [] c = 196 -> 196
      [] c = 214 -> 214
      [] c = 220 -> 220
      [] c = 223 -> 223
      [] OTHER -> c

text(str) == BufferFromBinary([i \in 1..Len(str) |-> MapUmlaut(str[i])])

feed(lines) == <<ESC, 100, Min(255, Max(0, lines))>>

\* cut sending the partial cut of function A, which takes no feed argument
cut_Partial == <<GS, 86, 1>>

cut == <<GS, 86, 66, 0>>

hr(char, length) == BufferFromBinary(Repeat(char, length) \o <<CH_NL>>)

\* qrCode not reading its size option: the default module size 6 is set
qrCode_DefaultSize(data, size) ==
    LET s == IF data = <<>> THEN STR_NA ELSE data
        n == StrLen(s) + 3
        setError == <<GS, 40, 107, 3, 0, 49, 69, 48>>
        setSize == <<GS, 40, 107, 3, 0, 49, 67, 6>>
        store == <<GS, 40, 107>> \o <<n % 256, (n \div 256) % 256>>
                 \o <<49, 80, 48>> \o BufferFromBinary(s)
        print == <<GS, 40, 107, 3, 0, 49, 81, 48>>
    IN  setError \o setSize \o store \o print

qrCode(data, size) ==
    LET s == IF data = <<>> THEN STR_NA ELSE data
        n == StrLen(s) + 3
        setError == <<GS, 40, 107, 3, 0, 49, 69, 48>>
        setSize == <<GS, 40, 107, 3, 0, 49, 67, Min(16, Max(1, size))>>
        store == <<GS, 40, 107>> \o <<n % 256, (n \div 256) % 256>>
                 \o <<49, 80, 48>> \o BufferFromBinary(s)
        print == <<GS, 40, 107, 3, 0, 49, 81, 48>>
    IN  setError \o setSize \o store \o print

-----------------------------------------------------------------------------
(* TEXT PROCESSING *)

\* the code points the eight removing replace calls of stripEmoji delete
IsStripped(c) ==
    \/ (c >= 127744 /\ c <= 129535)
    \/ (c >= 9728 /\ c <= 9983)
    \/ (c >= 9984 /\ c <= 10175)
    \/ (c >= 65024 /\ c <= 65039)
    \/ (c >= 126976 /\ c <= 127023)
    \/ (c >= 127136 /\ c <= 127231)
    \/ c = 8205
    \/ (c >= 917504 /\ c <= 917631)

RECURSIVE RemoveStripped(_)
RemoveStripped(str) ==
    IF str = <<>> THEN <<>>
    ELSE IF IsStripped(Head(str)) THEN RemoveStripped(Tail(str))
         ELSE <<Head(str)>> \o RemoveStripped(Tail(str))

\* stripEmoji without the replace of whitespace runs
stripEmoji_NoCollapse(str) == Trim(RemoveStripped(str))

stripEmoji(str) == Trim(CollapseSpaces(RemoveStripped(str)))

cleanTitle(title) == Trim(stripEmoji(title))

CleanChar(c) ==
    IF c \in {8211, 8212, 8213} THEN CH_MINUS
    ELSE IF c \in {8216, 8217} THEN CH_QUOTE
    ELSE IF c \in {8220, 8221} THEN CH_DQUOTE
    ELSE c

cleanText(str) == [i \in 1..Len(str) |-> CleanChar(str[i])]

-----------------------------------------------------------------------------
(* HELPER FUNCTIONS *)

\* the for loop of wrapTextNoBreak from word i on, with the line being
\* filled and the lines completed so far
RECURSIVE WrapLoop(_, _, _, _, _)
WrapLoop(words, i, line, result, maxLen) ==
    IF i > Len(words)
    THEN IF line # <<>> THEN Append(result, line) ELSE result
    ELSE LET word == words[i] IN
         IF line = <<>>
         THEN WrapLoop(words, i + 1, word, result, maxLen)
         ELSE IF StrLen(line) + 1 + StrLen(word) <= maxLen
              THEN WrapLoop(words, i + 1, line \o <<CH_SPACE>> \o word, result, maxLen)
              ELSE WrapLoop(words, i + 1, word, Append(result, line), maxLen)

\* wrapTextNoBreak with the separating space left out of the fit test
RECURSIVE WrapLoopNoSeparator(_, _, _, _, _)
WrapLoopNoSeparator(words, i, line, result, maxLen) ==
    IF i > Len(words)
    THEN IF line # <<>> THEN Append(result, line) ELSE result
    ELSE LET word == words[i] IN
         IF line = <<>>
         THEN WrapLoopNoSeparator(words, i + 1, word, result, maxLen)
         ELSE IF StrLen(line) + StrLen(word) <= maxLen
              THEN WrapLoopNoSeparator(words, i + 1, line \o <<CH_SPACE>> \o word,
                                       result, maxLen)
              ELSE WrapLoopNoSeparator(words, i + 1, word, Append(result, line), maxLen)

wrapTextNoBreak_NoSeparator(str, maxLen) ==
    WrapLoopNoSeparator(SplitSpaces(str), 1, <<>>, <<>>, maxLen)

\* wrapTextNoBreak never joining a word to the current line
wrapTextNoBreak_OneWordPerLine(str, maxLen) ==
    WrapLoop(SplitSpaces(str), 1, <<>>, <<>>, 0)

wrapTextNoBreak(str, maxLen) ==
    WrapLoop(SplitSpaces(str), 1, <<>>, <<>>, maxLen)

\* formatDate for a valid Date, given as its local day and month
formatDate(d) == Pad2(d.day) \o <<CH_DOT>> \o Pad2(d.month)

(***************************************************************************)
(* A due value is [kind |-> "none"] (absent or empty: falsy),              *)
(* [kind |-> "bad"] (a non-empty string that new Date cannot parse) or     *)
(* [kind |-> "date", t |-> h], the instant h hours after                  *)
(* 2024-01-01T00:00:00Z.  The key date.toISOString().slice(0, 10) of such  *)
(* an instant is its UTC calendar day, here the number of whole days since *)
(* 2024-01-01; within one year the YYYY-MM-DD strings sort as these        *)
(* numbers do.                                                             *)
(***************************************************************************)
\* the test of a due value that also takes an unparseable one as absent
HasDue_ValidOnly(task) == task.due.kind = "date"

HasDue(task) == task.due.kind # "none"

IsValidDue(task) == task.due.kind = "date"

DayKey(task) == task.due.t \div 24

\* Object.keys(groups).sort().reverse(): the keys in descending order
RECURSIVE SortKeys_Descending(_)
SortKeys_Descending(keys) ==
    IF keys = {} THEN <<>>
    ELSE LET k == CHOOSE x \in keys : \A y \in keys : x >= y
         IN  <<k>> \o SortKeys_Descending(keys \ {k})

\* Object.keys(groups).sort(): the keys in ascending order
RECURSIVE SortKeys(_)
SortKeys(keys) ==
    IF keys = {} THEN <<>>
    ELSE LET k == CHOOSE x \in keys : \A y \in keys : x <= y
         IN  <<k>> \o SortKeys(keys \ {k})

\* the entries [key, tasks] of the object groupTasksByDay returns, in the
\* order Object.entries lists them
groupTasksByDay(tasks) ==
    LET IsGrouped(t) == HasDue(t) /\ IsValidDue(t)
        keys == {DayKey(tasks[i]) : i \in {j \in 1..Len(tasks) : IsGrouped(tasks[j])}}
        sorted == SortKeys(keys)
        InDay(k, t) == IsGrouped(t) /\ DayKey(t) = k
    IN  [n \in 1..Len(sorted) |->
            [key |-> sorted[n],
             tasks |-> SelectSeq(tasks, LAMBDA t : InDay(sorted[n], t))]]

\* new Date(dateKey + 'T00:00:00') in local time: the weekday (0 is Sunday),
\* day of the month and month of a day key of January or February 2024
LocalDay(key) == (key + 1) % 7
LocalDate(key) == IF key < 31 THEN key + 1 ELSE key - 30
LocalMonth(key) == IF key < 31 THEN 1 ELSE 2

-----------------------------------------------------------------------------
(* TICKET BUILDERS *)

\* parts.push(bytes), made by the source section `role`
P(role, bytes) == [role |-> role, bytes |-> bytes]

\* Buffer.concat(parts)
BufferConcat(parts) == Concat([i \in 1..Len(parts) |-> parts[i].bytes])

\* task.labels.map(l => cleanTitle(l)).join('] [') between brackets
LabelLine(labels) ==
    <<CH_LBRACKET>>
    \o Join([i \in 1..Len(labels) |-> cleanTitle(labels[i])], STR_LABEL_SEP)
    \o <<CH_RBRACKET, CH_NL>>

buildSingleTaskTicket(task) ==
    LET title == toUpperCase(cleanTitle(task.title))
        useSize == IF StrLen(title) > 20 THEN 2 ELSE 3
        maxCharsPerLine == PAPER_WIDTH \div useSize
        titleLines == wrapTextNoBreak(title, maxCharsPerLine)
        descLines == wrapTextNoBreak(cleanText(task.description), PAPER_WIDTH)
        qrData == STR_DONOTICK \o (IF task.id # <<>> THEN task.id ELSE task.title)
    IN  <<P("init", init),
          P("align", align("center")),
          P("inverse", inverse(TRUE)),
          P("size", textSize(2, 2)),
          P("banner", text(STR_DO_IT)),
          P("size", textSize(1, 1)),
          P("inverse", inverse(FALSE)),
          P("feed", feed(1)),
          P("size", textSize(useSize, useSize)),
          P("emphasis", emphasis(TRUE))>>
        \o [i \in 1..Len(titleLines) |-> P("title", text(titleLines[i] \o <<CH_NL>>))]
        \o <<P("emphasis", emphasis(FALSE)),
             P("size", textSize(1, 1)),
             P("feed", feed(1))>>
        \o (IF task.labels # <<>>
            THEN <<P("labels", text(LabelLine(task.labels))), P("feed", feed(1))>>
            ELSE <<>>)
        \o (IF task.description # <<>>
            THEN <<P("hr", hr(CH_MINUS, PAPER_WIDTH)), P("align", align("center"))>>
                 \o [i \in 1..Len(descLines) |-> P("desc", text(descLines[i] \o <<CH_NL>>))]
                 \o <<P("feed", feed(1))>>
            ELSE <<>>)
        \o <<P("hr", hr(CH_EQUALS, PAPER_WIDTH)),
             P("align", align("center")),
             P("qr", qrCode(qrData, 8)),
             P("feed", feed(3)),
             P("cut", cut)>>

\* the task loop skipping, after it has counted it, a task whose cleaned
\* title is empty
TaskEntry_SkipsUntitled(task, emph) ==
    LET title == cleanTitle(task.title)
        lines == wrapTextNoBreak(title, PAPER_WIDTH - 2)
        on == IF emph THEN <<P("emphasis", emphasis(TRUE))>> ELSE <<>>
        off == IF emph THEN <<P("emphasis", emphasis(FALSE))>> ELSE <<>>
    IN  IF title = <<>> THEN <<>>
        ELSE
        (IF StrLen(title) <= PAPER_WIDTH - 2
         THEN on \o <<P("title", text(<<CH_MINUS, CH_SPACE>> \o title \o <<CH_NL>>))>> \o off
         ELSE on \o <<P("title", text(<<CH_MINUS, CH_SPACE>> \o lines[1] \o <<CH_NL>>))>> \o off
              \o [i \in 1..(Len(lines) - 1) |->
                    P("cont", text(<<CH_SPACE, CH_SPACE>> \o lines[i + 1] \o <<CH_NL>>))])
        \o (IF task.labels # <<>>
            THEN <<P("labels", text(<<CH_SPACE, CH_SPACE>> \o LabelLine(task.labels)))>>
            ELSE <<>>)

\* the title lines and the label line one task adds to a daily or weekly
\* list; the daily builder prints the first line emphasized
TaskEntry(task, emph) ==
    LET title == cleanTitle(task.title)
        lines == wrapTextNoBreak(title, PAPER_WIDTH - 2)
        on == IF emph THEN <<P("emphasis", emphasis(TRUE))>> ELSE <<>>
        off == IF emph THEN <<P("emphasis", emphasis(FALSE))>> ELSE <<>>
    IN  (IF StrLen(title) <= PAPER_WIDTH - 2
         THEN on \o <<P("title", text(<<CH_MINUS, CH_SPACE>> \o title \o <<CH_NL>>))>> \o off
         ELSE on \o <<P("title", text(<<CH_MINUS, CH_SPACE>> \o lines[1] \o <<CH_NL>>))>> \o off
              \o [i \in 1..(Len(lines) - 1) |->
                    P("cont", text(<<CH_SPACE, CH_SPACE>> \o lines[i + 1] \o <<CH_NL>>))])
        \o (IF task.labels # <<>>
            THEN <<P("labels", text(<<CH_SPACE, CH_SPACE>> \o LabelLine(task.labels)))>>
            ELSE <<>>)

buildDailySummaryTicket(tasks, now) ==
    <<P("init", init),
      P("align", align("center")),
      P("inverse", inverse(TRUE)),
      P("size", textSize(2, 1)),
      P("header", text(STR_HEUTE \o formatDate(now) \o <<CH_SPACE>>)),
      P("size", textSize(1, 1)),
      P("text", text(<<CH_NL>>)),
      P("inverse", inverse(FALSE)),
      P("feed", feed(1)),
      P("align", align("left")),
      P("count", text(DecStr(Len(tasks)) \o STR_AUFGABEN)),
      P("hr", hr(CH_MINUS, PAPER_WIDTH))>>
    \o Concat([i \in 1..Len(tasks) |-> TaskEntry(tasks[i], TRUE)])
    \o <<P("hr", hr(CH_MINUS, PAPER_WIDTH)),
         P("feed", feed(3)),
         P("cut", cut)>>

\* one pass of the loop over Object.entries(grouped)
DayBucket(entry) ==
    <<P("align", align("left")),
      P("inverse", inverse(TRUE)),
      P("bucket", text(<<CH_SPACE>> \o dayNames[LocalDay(entry.key) + 1] \o <<CH_SPACE>>
                       \o DecStr(LocalDate(entry.key)) \o <<CH_DOT>>
                       \o DecStr(LocalMonth(entry.key)) \o <<CH_SPACE>>)),
      P("inverse", inverse(FALSE)),
      P("count", text(<<CH_SPACE, CH_LPAREN>> \o DecStr(Len(entry.tasks))
                      \o <<CH_RPAREN, CH_NL>>))>>
    \o Concat([i \in 1..Len(entry.tasks) |-> TaskEntry(entry.tasks[i], FALSE)])
    \o <<P("feed", feed(1))>>

buildWeeklySummaryTicket(tasks, weekRange) ==
    LET cleanRange == cleanText(weekRange)
        grouped == groupTasksByDay(tasks)
        noDueTasks == SelectSeq(tasks, LAMBDA t : ~HasDue(t))
        dated == Concat([n \in 1..Len(grouped) |-> grouped[n].tasks])
        totalCount == Len(dated) + Len(noDueTasks)
    IN  <<P("init", init),
          P("align", align("center")),
          P("inverse", inverse(TRUE)),
          P("size", textSize(1, 2)),
          P("header", text(STR_WOCHENPLAN)),
          P("size", textSize(1, 1)),
          P("header", text(<<CH_SPACE>> \o cleanRange \o <<CH_SPACE, CH_NL>>)),
          P("inverse", inverse(FALSE)),
          P("feed", feed(1))>>
        \o Concat([n \in 1..Len(grouped) |-> DayBucket(grouped[n])])
        \o (IF noDueTasks # <<>>
            THEN <<P("inverse", inverse(TRUE)),
                   P("bucket", text(STR_OHNE_DATUM)),
                   P("inverse", inverse(FALSE)),
                   P("count", text(<<CH_SPACE, CH_LPAREN>> \o DecStr(Len(noDueTasks))
                                   \o <<CH_RPAREN, CH_NL>>))>>
                 \o Concat([i \in 1..Len(noDueTasks) |-> TaskEntry(noDueTasks[i], FALSE)])
                 \o <<P("feed", feed(1))>>
            ELSE <<>>)
        \o <<P("hr", hr(CH_EQUALS, PAPER_WIDTH)),
             P("align", align("center")),
             P("emphasis", emphasis(TRUE)),
             P("total", text(STR_GESAMT \o DecStr(totalCount) \o STR_AUFGABEN)),
             P("emphasis", emphasis(FALSE)),
             P("feed", feed(3)),
             P("cut", cut)>>

-----------------------------------------------------------------------------
(* WIFI QR CODE PRINT *)

\* the replace with the backslash left out of the character class
EscapeChar_KeepsBackslash(c) ==
    IF c \in {CH_SEMI, CH_COMMA, CH_COLON, CH_DQUOTE}
    THEN <<CH_BACKSLASH, c>>
    ELSE <<c>>

\* str.replace(/[\\;,:\"]/g, '\\$&')
EscapeChar(c) ==
    IF c \in {CH_BACKSLASH, CH_SEMI, CH_COMMA, CH_COLON, CH_DQUOTE}
    THEN <<CH_BACKSLASH, c>>
    ELSE <<c>>

\* escapeWifiString returning its argument as it is
escapeWifiString_Identity(str) == str

escapeWifiString(str) == Concat([i \in 1..Len(str) |-> EscapeChar(str[i])])

\* an argument that was not given, so that its default applies
Undefined == <<-1>>

\* password is '' when absent; type is Undefined when absent
buildWifiQrTicket(ssid, password, typeArg, hidden) ==
    LET type == IF typeArg = Undefined THEN STR_WPA ELSE typeArg
        escapedSsid == escapeWifiString(ssid)
        escapedPassword == escapeWifiString(password)
        wifiString ==
            STR_WIFI_T \o type \o STR_S \o escapedSsid \o <<CH_SEMI>>
            \o (IF type # STR_NOPASS /\ password # <<>>
                THEN STR_P \o escapedPassword \o <<CH_SEMI>> ELSE <<>>)
            \o (IF hidden THEN STR_H_TRUE ELSE <<>>)
            \o <<CH_SEMI>>
    IN  <<P("init", init),
          P("align", align("center")),
          P("inverse", inverse(TRUE)),
          P("size", textSize(2, 1)),
          P("header", text(STR_WLAN)),
          P("size", textSize(1, 1)),
          P("text", text(<<CH_NL>>)),
          P("inverse", inverse(FALSE)),
          P("feed", feed(1)),
          P("size", textSize(2, 2)),
          P("emphasis", emphasis(TRUE)),
          P("ssid", text(ssid \o <<CH_NL>>)),
          P("emphasis", emphasis(FALSE)),
          P("size", textSize(1, 1)),
          P("feed", feed(1)),
          P("hr", hr(CH_EQUALS, PAPER_WIDTH)),
          P("qr", qrCode(wifiString, 10)),
          P("feed", feed(1)),
          P("hr", hr(CH_EQUALS, PAPER_WIDTH)),
          P("feed", feed(1)),
          P("align", align("center")),
          P("text", text(STR_QR_SCANNEN)),
          P("text", text(STR_ZUM_VERBINDEN)),
          P("feed", feed(3)),
          P("cut", cut)>>

-----------------------------------------------------------------------------
(* MAIN PRINT FUNCTION: the choice of the builder *)

\* the mode inferred from the task count alone, whatever mode was given
printMode_ByCount(params) ==
    IF params.compact THEN "daily"
    ELSE IF Len(params.tasks) = 1 THEN "single"
    ELSE "daily"

\* mode || (compact ? 'daily' : (tasks.length === 1 ? 'single' : 'daily'))
printMode(params) ==
    IF params.mode # "" THEN params.mode
    ELSE IF params.compact THEN "daily"
    ELSE IF Len(params.tasks) = 1 THEN "single"
    ELSE "daily"

\* weekRange || headerTitle || 'Diese Woche'
weekRangeArg(params) ==
    IF params.weekRange # <<>> THEN params.weekRange
    ELSE IF params.headerTitle # <<>> THEN params.headerTitle
    ELSE STR_DIESE_WOCHE

\* the switch of printTasks building the single tickets last task first
printTasksTickets_Reversed(params) ==
    CASE printMode(params) = "single" ->
            [i \in 1..Len(params.tasks) |->
                buildSingleTaskTicket(params.tasks[Len(params.tasks) + 1 - i])]
      [] printMode(params) = "weekly" ->
            <<buildWeeklySummaryTicket(params.tasks, weekRangeArg(params))>>
      [] OTHER ->
            <<buildDailySummaryTicket(params.tasks, params.now)>>

\* the switch of printTasks: the tickets whose concatenation is the payload
printTasksTickets(params) ==
    CASE printMode(params) = "single" ->
            [i \in 1..Len(params.tasks) |-> buildSingleTaskTicket(params.tasks[i])]
      [] printMode(params) = "weekly" ->
            <<buildWeeklySummaryTicket(params.tasks, weekRangeArg(params))>>
      [] OTHER ->
            <<buildDailySummaryTicket(params.tasks, params.now)>>

printWifiQrTickets(params) ==
    <<buildWifiQrTicket(params.ssid, params.password, params.type, params.hidden)>>

\* the payload: Buffer.concat over the tickets
PayloadOf(tickets) == Concat([i \in 1..Len(tickets) |-> BufferConcat(tickets[i])])

-----------------------------------------------------------------------------
(* Inputs *)

\* 'Müll raus bringen'
TITLE_MUELL == <<77, 252, 108, 108, 32, 114, 97, 117, 115, 32, 98, 114, 105, 110, 103, 101, 110>>
\* '😀 '
TITLE_EMOJI == <<128512, 32>>
\* 'Wohnzimmer gründlich aufräumen und saugen'
TITLE_LONG == <<87, 111, 104, 110, 122, 105, 109, 109, 101, 114, 32, 103, 114, 252, 110, 100, 108, 105, 99, 104, 32, 97, 117, 102, 114, 228, 117, 109, 101, 110, 32, 117, 110, 100, 32, 115, 97, 117, 103, 101, 110>>
\* 'Bad'
TITLE_BAD == <<66, 97, 100>>
\* 'Küche und Bad putzen': 20 characters
TITLE_20 == <<75, 252, 99, 104, 101, 32, 117, 110, 100, 32, 66, 97, 100, 32, 112, 117, 116, 122, 101, 110>>
\* 'Küche und Bad wischen': 21 characters
TITLE_21 == <<75, 252, 99, 104, 101, 32, 117, 110, 100, 32, 66, 97, 100, 32, 119, 105, 115, 99, 104, 101, 110>>
\* 'Große Wäsche waschen': 20 characters, 21 in upper case
TITLE_SZ == <<71, 114, 111, 223, 101, 32, 87, 228, 115, 99, 104, 101, 32, 119, 97, 115, 99, 104, 101, 110>>
\* 'Gelb'
LABEL_GELB == <<71, 101, 108, 98>>
\* 'Haus'
LABEL_HAUS == <<72, 97, 117, 115>>
\* 'Putzen 😀'
LABEL_PUTZEN == <<80, 117, 116, 122, 101, 110, 32, 128512>>
\* 'Tonne – vorne '
DESC_TONNE == <<84, 111, 110, 110, 101, 32, 8211, 32, 118, 111, 114, 110, 101, 32>>
\* '1'
ID_1 == <<49>>
\* '42'
ID_42 == <<52, 50>>
\* '6.1. – 12.1.'
RANGE_KW == <<54, 46, 49, 46, 32, 8211, 32, 49, 50, 46, 49, 46>>
\* 'Einkauf'
HEADER_EINKAUF == <<69, 105, 110, 107, 97, 117, 102>>
\* 'Home'
SSID_HOME == <<72, 111, 109, 101>>
\* 'a;b'
SSID_SPECIAL == <<97, 59, 98>>
\* 'p:w"1\\'
PASSWORD_SPECIAL == <<112, 58, 119, 34, 49, 92>>
\* 'WEP'
STR_WEP == <<87, 69, 80>>

NoDue == [kind |-> "none"]
BadDue == [kind |-> "bad"]
DueAt(h) == [kind |-> "date", t |-> h]

Task(id, title, description, labels, due) ==
    [id |-> id, title |-> title, description |-> description,
     labels |-> labels, due |-> due]

TaskPool ==
    { Task(ID_1, TITLE_MUELL, <<>>, <<LABEL_GELB>>, NoDue),
      Task(<<>>, <<>>, <<>>, <<>>, DueAt(30)),
      Task(<<>>, TITLE_EMOJI, DESC_TONNE, <<>>, BadDue),
      Task(ID_42, TITLE_LONG, <<>>, <<LABEL_HAUS, LABEL_PUTZEN>>, DueAt(23)),
      Task(<<>>, TITLE_BAD, <<>>, <<>>, DueAt(47)),
      Task(<<>>, TITLE_20, <<>>, <<>>, NoDue),
      Task(ID_42, TITLE_21, <<>>, <<>>, DueAt(30)),
      Task(ID_1, TITLE_SZ, <<>>, <<>>, DueAt(700)) }

\* the non-empty task lists of at most n tasks
TaskLists(n) == UNION {[1..k -> TaskPool] : k \in 1..n}

\* the local dates new Date() may give
Today == {[day |-> 5, month |-> 11], [day |-> 24, month |-> 3]}

TaskParams(tasks, mode, compact, weekRange, headerTitle, now) ==
    [op |-> "printTasks", tasks |-> tasks, mode |-> mode, compact |-> compact,
     weekRange |-> weekRange, headerTitle |-> headerTitle, now |-> now]

WifiParams(ssid, password, type, hidden) ==
    [op |-> "printWifiQr", ssid |-> ssid, password |-> password,
     type |-> type, hidden |-> hidden]

Modes == {"", "single", "daily", "weekly"}

BuildRequests ==
    {TaskParams(ts, m, FALSE, wr, ht, now) :
        ts \in TaskLists(MaxTasks), m \in Modes,
        wr \in {<<>>, RANGE_KW}, ht \in {<<>>, HEADER_EINKAUF}, now \in Today}
    \cup {TaskParams(ts, m, TRUE, <<>>, <<>>, now) :
        ts \in TaskLists(1), m \in {"", "single"}, now \in Today}
    \cup {WifiParams(s, p, ty, h) :
        s \in {SSID_HOME, SSID_SPECIAL}, p \in {<<>>, PASSWORD_SPECIAL},
        ty \in {Undefined, STR_WPA, STR_WEP, STR_NOPASS}, h \in BOOLEAN}

\* the strings of at most n characters over 'a', 'b' and the space
WrapStrings(n) == UNION {[1..k -> {97, 98, CH_SPACE}] : k \in 0..n}

-----------------------------------------------------------------------------
(* SpecWrap: one call of wrapTextNoBreak on any bounded input *)

IdleCalls == [c \in 1..NumCalls |-> [op |-> "none"]]

WrapIdle == wstr = <<>> /\ wmax = 1 /\ wout = <<>> /\ wpc = "off"
BuildIdle == breq = [op |-> "none"] /\ btickets = <<>> /\ bpc = "off"
CallsIdle == ncalls = 0 /\ call = IdleCalls
EscapeIdle == estr = <<>> /\ eout = <<>> /\ epc = "off"
StripIdle == sstr = <<>> /\ sout = <<>> /\ spc = "off"
MorningIdle == morning = [pc |-> "off"]
RunnerIdle == runner = [pc |-> "off"]

InitWrap ==
    /\ wstr \in WrapStrings(MaxStrLen)
    /\ wmax \in 1..MaxWidth
    /\ wout = <<>>
    /\ wpc = "ready"
    /\ BuildIdle
    /\ CallsIdle
    /\ EscapeIdle
    /\ StripIdle
    /\ MorningIdle
    /\ RunnerIdle

WrapCall ==
    /\ wpc = "ready"
    /\ wout' = wrapTextNoBreak(wstr, wmax)
    /\ wpc' = "done"
    /\ UNCHANGED <<wstr, wmax, breq, btickets, bpc, estr, eout, epc, sstr, sout, spc, morning, runner, ncalls, call>>

NextWrap == WrapCall

SpecWrap == InitWrap /\ [][NextWrap]_vars

-----------------------------------------------------------------------------
(* SpecBuild: one run of a ticket builder on any bounded input *)

InitBuild ==
    /\ breq \in BuildRequests
    /\ btickets = <<>>
    /\ bpc = "ready"
    /\ WrapIdle
    /\ CallsIdle
    /\ EscapeIdle
    /\ StripIdle
    /\ MorningIdle
    /\ RunnerIdle

BuildTasks ==
    /\ bpc = "ready"
    /\ breq.op = "printTasks"
    /\ btickets' = printTasksTickets(breq)
    /\ bpc' = "done"
    /\ UNCHANGED <<wstr, wmax, wout, wpc, estr, eout, epc, sstr, sout, spc, morning, runner, breq, ncalls, call>>

BuildWifi ==
    /\ bpc = "ready"
    /\ breq.op = "printWifiQr"
    /\ btickets' = printWifiQrTickets(breq)
    /\ bpc' = "done"
    /\ UNCHANGED <<wstr, wmax, wout, wpc, estr, eout, epc, sstr, sout, spc, morning, runner, breq, ncalls, call>>

NextBuild == BuildTasks \/ BuildWifi

SpecBuild == InitBuild /\ [][NextBuild]_vars

-----------------------------------------------------------------------------
(* SpecEscape: one call of escapeWifiString on any bounded input *)

\* the strings of at most n characters over the five characters the WiFi
\* format reserves and the letter 'a'
WifiStrings(n) ==
    UNION {[1..k -> {CH_BACKSLASH, CH_SEMI, CH_COMMA, CH_COLON, CH_DQUOTE, 97}] : k \in 0..n}

InitEscape ==
    /\ estr \in WifiStrings(MaxEscLen)
    /\ eout = <<>>
    /\ epc = "ready"
    /\ WrapIdle
    /\ BuildIdle
    /\ CallsIdle
    /\ StripIdle
    /\ MorningIdle
    /\ RunnerIdle

EscapeCall ==
    /\ epc = "ready"
    /\ eout' = escapeWifiString(estr)
    /\ epc' = "done"
    /\ UNCHANGED <<wstr, wmax, wout, wpc, breq, btickets, bpc, estr, sstr, sout, spc, morning, runner,
                   ncalls, call>>

NextEscape == EscapeCall

SpecEscape == InitEscape /\ [][NextEscape]_vars

-----------------------------------------------------------------------------
(* SpecStrip: one call of stripEmoji on any bounded input *)

\* the first and last code point of every range stripEmoji removes, and the
\* code points next to them
RangeEdges ==
    { 127743, 127744, 129535, 129536, 9727, 9728, 9983, 9984, 10175, 10176,
      65023, 65024, 65039, 65040, 126975, 126976, 127023, 127024,
      127135, 127136, 127231, 127232, 8204, 8205, 8206,
      917503, 917504, 917631, 917632 }

\* the strings of at most n characters over 'a', the space, the tab, an
\* emoji, a symbol, the zero-width joiner and a pictograph stripEmoji keeps,
\* and the strings 'a', c, 'b' for every c at the edge of a removed range
StripStrings(n) ==
    UNION {[1..k -> {97, CH_SPACE, 9, 128512, 9728, 8205, 129648}] : k \in 0..n}
    \cup {<<97, c, 98>> : c \in RangeEdges}

InitStrip ==
    /\ sstr \in StripStrings(MaxStripLen)
    /\ sout = <<>>
    /\ spc = "ready"
    /\ WrapIdle
    /\ BuildIdle
    /\ CallsIdle
    /\ EscapeIdle
    /\ MorningIdle
    /\ RunnerIdle

StripCall ==
    /\ spc = "ready"
    /\ sout' = stripEmoji(sstr)
    /\ spc' = "done"
    /\ UNCHANGED <<wstr, wmax, wout, wpc, breq, btickets, bpc, estr, eout, epc, sstr,
                   morning, runner, ncalls, call>>

NextStrip == StripCall

SpecStrip == InitStrip /\ [][NextStrip]_vars

-----------------------------------------------------------------------------
(* TRANSPORT: promises, sockets and their listeners *)

(***************************************************************************)
(* A call record holds what one invocation of printTasks, printWifiQr or   *)
(* pingPrinter owns: its parameters, its promise, its payload and its      *)
(* socket.  `created` counts net.createConnection calls, `writes` the      *)
(* socket.write calls and `written` the bytes handed to them; `ev` is the  *)
(* log of the socket events delivered to the call's listeners so far.      *)
(* A promise value is a tuple of strings.                                  *)
(***************************************************************************)
NoErr == [given |-> FALSE, code |-> "", message |-> ""]

NewCall(op, params) ==
    [op |-> op, params |-> params, promise |-> "pending", value |-> <<>>,
     payload |-> <<>>, created |-> 0, sock |-> "none", timeout |-> 0,
     connected |-> FALSE, written |-> <<>>, writes |-> 0, wstate |-> "none",
     ended |-> FALSE, errq |-> NoErr, ev |-> <<>>]

\* resolve(value) and reject(error): only the first of them settles a promise
resolve(rec, value) ==
    IF rec.promise = "pending"
    THEN [rec EXCEPT !.promise = "resolved", !.value = value] ELSE rec

reject(rec, message) ==
    IF rec.promise = "pending"
    THEN [rec EXCEPT !.promise = "rejected", !.value = <<"Error">> \o message] ELSE rec

\* net.createConnection({ host, port, timeout }, listener)
createConnection(rec, timeoutMs) ==
    [rec EXCEPT !.created = @ + 1, !.sock = "connecting", !.timeout = timeoutMs]

\* socket.end(): half-closes a live socket, nothing on a destroyed one
socketEnd(rec) == [rec EXCEPT !.ended = TRUE]

\* socket.destroy()
socketDestroy(rec) == [rec EXCEPT !.sock = "destroyed"]

\* socket.write(data, callback)
socketWrite(rec, data) ==
    [rec EXCEPT !.written = @ \o data, !.writes = @ + 1, !.wstate = "pending"]

\* err.code || err.message
ErrText(err) == IF err.code # "" THEN err.code ELSE err.message

\* printTasks without the test for an empty task list
printTasks_NoEmptyCheck(calls, c, params) ==
    LET rec == NewCall("printTasks", params) IN
    IF params.host = ""
    THEN [calls EXCEPT ![c] = reject(rec, <<"Printer host is missing">>)]
    ELSE IF ~params.isArray
    THEN [calls EXCEPT ![c] = reject(rec, <<"No tasks to print">>)]
    ELSE [calls EXCEPT ![c] =
            createConnection(
                [rec EXCEPT !.payload = PayloadOf(printTasksTickets(params))],
                PRINT_TIMEOUT_MS)]

\* printTasks up to the return of the promise
printTasks(calls, c, params) ==
    LET rec == NewCall("printTasks", params) IN
    IF params.host = ""
    THEN [calls EXCEPT ![c] = reject(rec, <<"Printer host is missing">>)]
    ELSE IF ~params.isArray \/ params.tasks = <<>>
    THEN [calls EXCEPT ![c] = reject(rec, <<"No tasks to print">>)]
    ELSE [calls EXCEPT ![c] =
            createConnection(
                [rec EXCEPT !.payload = PayloadOf(printTasksTickets(params))],
                PRINT_TIMEOUT_MS)]

\* the connect listener of printTasks writing a payload kept in one variable
\* of the module, which the latest call has overwritten
printTasksOnConnect_SharedPayload(calls, c) ==
    [calls EXCEPT ![c] = socketWrite(@, calls[ncalls].payload)]

\* the connect listener of printTasks
printTasksOnConnect(calls, c) ==
    [calls EXCEPT ![c] = socketWrite(@, calls[c].payload)]

\* the write callback of printTasks; its error argument is not read
printTasksOnWrite(calls, c) ==
    [calls EXCEPT ![c] = resolve(socketEnd(@), <<"undefined">>)]

\* the 'error' listener of printTasks connecting again instead of rejecting
printTasksOnError_Retry(calls, c, err) ==
    [calls EXCEPT ![c] = createConnection(@, PRINT_TIMEOUT_MS)]

\* the 'error' listener of printTasks
printTasksOnError(calls, c, err) ==
    [calls EXCEPT ![c] = reject(@, <<"Printer error: ", ErrText(err)>>)]

\* the 'timeout' listener of printTasks rejecting as a socket error would
printTasksOnTimeout_AsError(calls, c) ==
    [calls EXCEPT ![c] = reject(socketDestroy(@), <<"Printer error: ", "ETIMEDOUT">>)]

\* the 'timeout' listener of printTasks
printTasksOnTimeout(calls, c) ==
    [calls EXCEPT ![c] = reject(socketDestroy(@), <<"Printer connection timed out">>)]

\* printWifiQr up to the return of the promise
printWifiQr(calls, c, params) ==
    LET rec == NewCall("printWifiQr", params) IN
    IF params.host = ""
    THEN [calls EXCEPT ![c] = reject(rec, <<"Printer host is missing">>)]
    ELSE IF params.ssid = <<>>
    THEN [calls EXCEPT ![c] = reject(rec, <<"SSID is required">>)]
    ELSE [calls EXCEPT ![c] =
            createConnection(
                [rec EXCEPT !.payload = PayloadOf(printWifiQrTickets(params))],
                PRINT_TIMEOUT_MS)]

\* the connect listener of printWifiQr
printWifiQrOnConnect(calls, c) ==
    [calls EXCEPT ![c] = socketWrite(@, calls[c].payload)]

\* the write callback of printWifiQr; its error argument is not read
printWifiQrOnWrite(calls, c) ==
    [calls EXCEPT ![c] = resolve(socketEnd(@), <<"undefined">>)]

\* the 'error' listener of printWifiQr
printWifiQrOnError(calls, c, err) ==
    [calls EXCEPT ![c] = reject(@, <<"Printer error: ", ErrText(err)>>)]

\* the 'timeout' listener of printWifiQr
printWifiQrOnTimeout(calls, c) ==
    [calls EXCEPT ![c] = reject(socketDestroy(@), <<"Printer connection timed out">>)]

\* pingPrinter up to the return of the promise
pingPrinter(calls, c, params) ==
    [calls EXCEPT ![c] = createConnection(NewCall("pingPrinter", params), PING_TIMEOUT_MS)]

\* the connect listener of pingPrinter
pingOnConnect(calls, c) ==
    [calls EXCEPT ![c] = resolve(socketEnd(@), <<"reachable", "true">>)]

\* fail rejecting the promise instead of resolving it
pingFail_Rejects(calls, c, err) ==
    [calls EXCEPT ![c] =
        reject(socketDestroy(@), <<IF err.given THEN ErrText(err) ELSE "timeout">>)]

\* fail, the 'error' and 'timeout' listener of pingPrinter; a timeout event
\* carries no error
pingFail(calls, c, err) ==
    [calls EXCEPT ![c] =
        resolve(socketDestroy(@),
                <<"reachable", "false", IF err.given THEN ErrText(err) ELSE "timeout">>)]

-----------------------------------------------------------------------------
(* Spec: calls of the engine and the events of their sockets *)

HOST == "192.168.50.100"

\* the errors a connection attempt may fail with
ConnectErrors ==
    { [given |-> TRUE, code |-> "ECONNREFUSED", message |-> "connect ECONNREFUSED"],
      [given |-> TRUE, code |-> "", message |-> "socket hang up"] }

\* the errors an established connection may fail with
StreamErrors == { [given |-> TRUE, code |-> "ECONNRESET", message |-> "read ECONNRESET"] }

\* the errors a write may fail with
WriteErrors == { [given |-> TRUE, code |-> "EPIPE", message |-> "write EPIPE"] }

SendTask1 == Task(ID_1, TITLE_MUELL, <<>>, <<LABEL_GELB>>, NoDue)
SendTask2 == Task(<<>>, TITLE_BAD, <<>>, <<>>, DueAt(47))

PrintParams(host, isArray, tasks, mode) ==
    [host |-> host, isArray |-> isArray, tasks |-> tasks, mode |-> mode,
     compact |-> FALSE, weekRange |-> <<>>, headerTitle |-> <<>>,
     now |-> [day |-> 5, month |-> 11]]

PrintRequests ==
    { PrintParams("", TRUE, <<SendTask1>>, ""),
      PrintParams(HOST, FALSE, <<>>, ""),
      PrintParams(HOST, TRUE, <<>>, ""),
      PrintParams(HOST, TRUE, <<SendTask1, SendTask2>>, "single"),
      PrintParams(HOST, TRUE, <<SendTask2, SendTask1>>, ""),
      PrintParams(HOST, TRUE, <<SendTask2, SendTask1>>, "weekly") }

WifiRequests ==
    { [host |-> h, ssid |-> s, password |-> PASSWORD_SPECIAL, type |-> Undefined,
       hidden |-> FALSE] : h \in {"", HOST}, s \in {<<>>, SSID_HOME} }

PingRequests == { [host |-> HOST] }

Init ==
    /\ ncalls = 0
    /\ call = IdleCalls
    /\ WrapIdle
    /\ BuildIdle
    /\ EscapeIdle
    /\ StripIdle
    /\ MorningIdle
    /\ RunnerIdle

Live(c) == c <= ncalls /\ call[c].sock \in {"connecting", "open"}

Log(calls, c, type, err) ==
    [calls EXCEPT ![c].ev = Append(@, [type |-> type, err |-> err])]

CallPrintTasks ==
    /\ ncalls < NumCalls
    /\ \E params \in PrintRequests :
          call' = printTasks(call, ncalls + 1, params)
    /\ ncalls' = ncalls + 1
    /\ UNCHANGED <<wstr, wmax, wout, wpc, estr, eout, epc, sstr, sout, spc, morning, runner, breq, btickets, bpc>>

CallPrintWifiQr ==
    /\ ncalls < NumCalls
    /\ \E params \in WifiRequests :
          call' = printWifiQr(call, ncalls + 1, params)
    /\ ncalls' = ncalls + 1
    /\ UNCHANGED <<wstr, wmax, wout, wpc, estr, eout, epc, sstr, sout, spc, morning, runner, breq, btickets, bpc>>

CallPingPrinter ==
    /\ ncalls < NumCalls
    /\ \E params \in PingRequests :
          call' = pingPrinter(call, ncalls + 1, params)
    /\ ncalls' = ncalls + 1
    /\ UNCHANGED <<wstr, wmax, wout, wpc, estr, eout, epc, sstr, sout, spc, morning, runner, breq, btickets, bpc>>

\* the connection is established: the connect listener runs
SockConnect(c) ==
    /\ c <= ncalls
    /\ call[c].sock = "connecting"
    /\ LET calls == Log([call EXCEPT ![c].sock = "open", ![c].connected = TRUE],
                        c, "connect", NoErr)
       IN  call' = CASE call[c].op = "printTasks" -> printTasksOnConnect(calls, c)
                     [] call[c].op = "printWifiQr" -> printWifiQrOnConnect(calls, c)
                     [] OTHER -> pingOnConnect(calls, c)
    /\ UNCHANGED <<wstr, wmax, wout, wpc, estr, eout, epc, sstr, sout, spc, morning, runner, breq, btickets, bpc, ncalls>>

\* the write callback, for a call that made a write
OnWrite(calls, c) ==
    IF calls[c].op = "printTasks" THEN printTasksOnWrite(calls, c)
    ELSE printWifiQrOnWrite(calls, c)

\* the 'error' listener
OnError(calls, c, err) ==
    CASE calls[c].op = "printTasks" -> printTasksOnError(calls, c, err)
      [] calls[c].op = "printWifiQr" -> printWifiQrOnError(calls, c, err)
      [] OTHER -> pingFail(calls, c, err)

\* the 'timeout' listener
OnTimeout(calls, c) ==
    CASE calls[c].op = "printTasks" -> printTasksOnTimeout(calls, c)
      [] calls[c].op = "printWifiQr" -> printWifiQrOnTimeout(calls, c)
      [] OTHER -> pingFail(calls, c, NoErr)

\* the payload was written out: the write callback runs without an error
SockWriteFlushed(c) ==
    /\ Live(c)
    /\ call[c].wstate = "pending"
    /\ call' = OnWrite(Log([call EXCEPT ![c].wstate = "flushed"], c, "flushed", NoErr), c)
    /\ UNCHANGED <<wstr, wmax, wout, wpc, estr, eout, epc, sstr, sout, spc, morning, runner, breq, btickets, bpc, ncalls>>

\* the write failed: the write callback runs with the error, and the socket
\* emits 'error' with it afterwards
SockWriteFailed(c) ==
    /\ Live(c)
    /\ call[c].wstate = "pending"
    /\ \E err \in WriteErrors :
          call' = OnWrite(Log([call EXCEPT ![c].wstate = "failed", ![c].errq = err],
                              c, "writefailed", err), c)
    /\ UNCHANGED <<wstr, wmax, wout, wpc, estr, eout, epc, sstr, sout, spc, morning, runner, breq, btickets, bpc, ncalls>>

\* the 'error' event that follows a failed write; the socket is destroyed
SockWriteError(c) ==
    /\ c <= ncalls
    /\ call[c].errq.given
    /\ call' = OnError(Log([call EXCEPT ![c].sock = "destroyed", ![c].errq = NoErr],
                           c, "error", call[c].errq), c, call[c].errq)
    /\ UNCHANGED <<wstr, wmax, wout, wpc, estr, eout, epc, sstr, sout, spc, morning, runner, breq, btickets, bpc, ncalls>>

\* the socket fails (refused, reset, ...): it is destroyed and emits 'error'
SockError(c) ==
    /\ Live(c)
    /\ ~call[c].errq.given
    /\ \E err \in IF call[c].sock = "connecting" THEN ConnectErrors ELSE StreamErrors :
          call' = OnError(Log([call EXCEPT ![c].sock = "destroyed"], c, "error", err), c, err)
    /\ UNCHANGED <<wstr, wmax, wout, wpc, estr, eout, epc, sstr, sout, spc, morning, runner, breq, btickets, bpc, ncalls>>

\* the socket was idle for its timeout: it emits 'timeout'
SockTimeout(c) ==
    /\ Live(c)
    /\ ~call[c].errq.given
    /\ call' = OnTimeout(Log(call, c, "timeout", NoErr), c)
    /\ UNCHANGED <<wstr, wmax, wout, wpc, estr, eout, epc, sstr, sout, spc, morning, runner, breq, btickets, bpc, ncalls>>

\* a write still in flight when the socket was destroyed is given up: its
\* callback runs with an error
SockWriteAborted(c) ==
    /\ c <= ncalls
    /\ call[c].sock = "destroyed"
    /\ call[c].wstate = "pending"
    /\ call' = OnWrite(Log([call EXCEPT ![c].wstate = "failed"], c, "writefailed", NoErr), c)
    /\ UNCHANGED <<wstr, wmax, wout, wpc, estr, eout, epc, sstr, sout, spc, morning, runner, breq, btickets, bpc, ncalls>>

\* the ended connection closes
SockClose(c) ==
    /\ c <= ncalls
    /\ call[c].sock = "open"
    /\ call[c].ended
    /\ ~call[c].errq.given
    /\ call' = Log([call EXCEPT ![c].sock = "closed"], c, "close", NoErr)
    /\ UNCHANGED <<wstr, wmax, wout, wpc, estr, eout, epc, sstr, sout, spc, morning, runner, breq, btickets, bpc, ncalls>>

Next ==
    \/ CallPrintTasks
    \/ CallPrintWifiQr
    \/ CallPingPrinter
    \/ \E c \in 1..NumCalls :
        \/ SockConnect(c)
        \/ SockWriteFlushed(c)
        \/ SockWriteFailed(c)
        \/ SockWriteError(c)
        \/ SockError(c)
        \/ SockTimeout(c)
        \/ SockWriteAborted(c)
        \/ SockClose(c)

Spec == Init /\ [][Next]_vars

\* every event of the socket of call c
SockEvents(c) ==
    \/ SockConnect(c)
    \/ SockWriteFlushed(c)
    \/ SockWriteFailed(c)
    \/ SockWriteError(c)
    \/ SockError(c)
    \/ SockTimeout(c)
    \/ SockWriteAborted(c)
    \/ SockClose(c)

\* Spec with sockets that deliver their events: a socket that can deliver an
\* event eventually delivers one
FairSpec == Spec /\ \A c \in 1..NumCalls : WF_vars(SockEvents(c))

-----------------------------------------------------------------------------
(* SpecMorning: one run of runMorningPrint (server.js) *)

(***************************************************************************)
(* The run is cut at its awaits.  `log` lists the calls the run makes and  *)
(* how they settle: recordMorningTasks ("record"), a printTasks call for   *)
(* task n in single mode ("print", then "printed" or "printFailed"), a     *)
(* completeTask call ("complete"), markPrinted ("markPrinted") and the     *)
(* weekly printTasks call ("printWeekly", then "weeklyPrinted" or          *)
(* "weeklyFailed").  `daily` is the task list of the daily state.          *)
(***************************************************************************)

\* 'trash-a', the id of a trash reminder task with uid 'a'
ID_TRASH == <<116, 114, 97, 115, 104, 45, 97>>
\* 'a'
UID_TRASH == <<97>>

\* the n-th task fetched from Donotick: its id is the number n
DonotickTask(n) == [id |-> DecStr(n), uid |-> <<>>]

\* a trash reminder task (trash.js:111-112)
TrashTask == [id |-> ID_TRASH, uid |-> UID_TRASH]

\* what fetchTasks may give: up to n tasks
DonotickLists(n) == {[k \in 1..m |-> DonotickTask(k)] : m \in 0..n}

\* what getTrashReminderTasks may give as trashData.tasks
TrashLists == {<<>>, <<TrashTask>>}

\* /^\d+$/.test(String(id))
IsNumericId(id) == id # <<>> /\ \A i \in 1..Len(id) : id[i] >= 48 /\ id[i] <= 57

Ev(type, arg) == [type |-> type, arg |-> arg]

\* the catch block of runMorningPrint
morningCatch(m, message) ==
    [m EXCEPT !.pc = "done", !.lastRunError = message]

\* the end of the try block
morningFinish(m) ==
    [m EXCEPT !.pc = "done", !.lastRunError = "null", !.lastRunResult = "Printed"]

\* markPrinted and what follows it up to the next await
morningMarkPrinted(m) ==
    LET uids == [i \in 1..Len(m.trash) |-> m.trash[i].uid]
        marked == [m EXCEPT !.log = Append(@, Ev("markPrinted", uids))]
    IN  IF m.monday THEN [marked EXCEPT !.pc = "gatherWeek"] ELSE morningFinish(marked)

\* what follows the print loop up to the next await: the completeTask calls
\* for the numeric ids, or markPrinted when there is none
morningAfterPrints(m) ==
    LET donotickIds == SelectSeq([i \in 1..Len(m.tasks) |-> m.tasks[i].id], IsNumericId)
    IN  IF donotickIds # <<>>
        THEN [m EXCEPT !.pc = "completing",
                       !.log = @ \o [i \in 1..Len(donotickIds) |->
                                        Ev("complete", donotickIds[i])]]
        ELSE morningMarkPrinted(m)

\* the print loop from task n on, up to the next await
morningPrintFrom(m, n) ==
    IF n <= Len(m.tasks)
    THEN [m EXCEPT !.pc = "printing", !.i = n, !.log = Append(@, Ev("print", n))]
    ELSE morningAfterPrints(m)

\* the print of task m.i failed, and the loop goes on with the next task
morningPrintRejected_Continue(m) ==
    morningPrintFrom([m EXCEPT !.log = Append(@, Ev("printFailed", m.i))], m.i + 1)

\* the awaited printTasks call of task m.i rejected: the catch block runs
morningPrintRejected(m) ==
    morningCatch([m EXCEPT !.log = Append(@, Ev("printFailed", m.i))], "print failed")

\* the awaited printTasks call of task m.i resolved
morningPrintResolved(m) ==
    morningPrintFrom([m EXCEPT !.log = Append(@, Ev("printed", m.i))], m.i + 1)

\* db.recordMorningTasks(tasks)
recordMorningTasks(m) ==
    [m EXCEPT !.daily = m.tasks, !.log = Append(@, Ev("record", Len(m.tasks)))]

\* gatherTasks('today') resolved: runMorningPrint up to its next await; saved
\* is whether saveDb succeeds
morningGathered(m, donotickTasks, trashTasks, saved) ==
    LET tasks == donotickTasks \o trashTasks
        got == [m EXCEPT !.tasks = tasks, !.trash = trashTasks]
    IN  IF tasks = <<>> /\ ~m.monday
        THEN [got EXCEPT !.pc = "done", !.lastRunError = "null",
                         !.lastRunResult = "No tasks to print"]
        ELSE IF tasks # <<>> /\ ~saved
        THEN morningCatch(got, "save failed")
        ELSE morningPrintFrom(IF tasks # <<>> THEN recordMorningTasks(got) ELSE got, 1)

\* the state before a run: lastRunError is what an earlier run left
MorningStates ==
    {[pc |-> "gatherToday", monday |-> mo, tasks |-> <<>>, trash |-> <<>>, i |-> 0,
      log |-> <<>>, daily |-> <<>>, lastRunError |-> e, lastRunResult |-> "none"] :
        mo \in BOOLEAN, e \in {"null", "earlier error"}}

InitMorning ==
    /\ morning \in MorningStates
    /\ WrapIdle
    /\ BuildIdle
    /\ CallsIdle
    /\ EscapeIdle
    /\ StripIdle
    /\ RunnerIdle

MorningRest ==
    UNCHANGED <<wstr, wmax, wout, wpc, breq, btickets, bpc, estr, eout, epc,
                sstr, sout, spc, runner, ncalls, call>>

MorningGathered ==
    /\ morning.pc = "gatherToday"
    /\ \E d \in DonotickLists(MaxDonotick), t \in TrashLists, saved \in BOOLEAN :
          morning' = morningGathered(morning, d, t, saved)
    /\ MorningRest

MorningGatherFailed ==
    /\ morning.pc = "gatherToday"
    /\ morning' = morningCatch(morning, "fetch failed")
    /\ MorningRest

MorningPrintResolved ==
    /\ morning.pc = "printing"
    /\ morning' = morningPrintResolved(morning)
    /\ MorningRest

MorningPrintRejected ==
    /\ morning.pc = "printing"
    /\ morning' = morningPrintRejected(morning)
    /\ MorningRest

\* Promise.allSettled resolved, whatever the completeTask calls did
MorningCompleted ==
    /\ morning.pc = "completing"
    /\ morning' = morningMarkPrinted(morning)
    /\ MorningRest

\* gatherTasks('week') resolved with n tasks: the weekly print is called when
\* there is a task
MorningWeekGathered ==
    /\ morning.pc = "gatherWeek"
    /\ \E n \in 0..1 :
          morning' = IF n > 0
                     THEN [morning EXCEPT !.pc = "printWeekly",
                                          !.log = Append(@, Ev("printWeekly", n))]
                     ELSE morningFinish(morning)
    /\ MorningRest

MorningWeekGatherFailed ==
    /\ morning.pc = "gatherWeek"
    /\ morning' = morningCatch(morning, "fetch failed")
    /\ MorningRest

MorningWeeklyResolved ==
    /\ morning.pc = "printWeekly"
    /\ morning' = morningFinish([morning EXCEPT !.log = Append(@, Ev("weeklyPrinted", 0))])
    /\ MorningRest

MorningWeeklyRejected ==
    /\ morning.pc = "printWeekly"
    /\ morning' = morningCatch([morning EXCEPT !.log = Append(@, Ev("weeklyFailed", 0))],
                               "print failed")
    /\ MorningRest

NextMorning ==
    \/ MorningGathered
    \/ MorningGatherFailed
    \/ MorningPrintResolved
    \/ MorningPrintRejected
    \/ MorningCompleted
    \/ MorningWeekGathered
    \/ MorningWeekGatherFailed
    \/ MorningWeeklyResolved
    \/ MorningWeeklyRejected

SpecMorning == InitMorning /\ [][NextMorning]_vars

-----------------------------------------------------------------------------
(* SpecRunner: one runner of createDailyRunner and its timers *)

(***************************************************************************)
(* `timer` is the closure variable of the runner (0 is null) and `pending` *)
(* the set of timers that were set and have neither fired nor been         *)
(* cleared.  `running` counts the timer callbacks that await fn().  The    *)
(* other fields record what happened: `completed` counts the callbacks     *)
(* that ran to their end, `outcomes` how they went, `stopped` whether      *)
(* stop() was called with no reschedule() after it, `startedAfterStop`     *)
(* whether fn was started while `stopped`, and `rescheduledInRun` whether  *)
(* reschedule() was called while a callback awaited fn().                  *)
(***************************************************************************)

\* scheduleNext without its clearTimeout(timer)
scheduleNext_NoClear(r) ==
    [r EXCEPT !.pending = @ \cup {r.nextId},
              !.timer = r.nextId,
              !.nextId = @ + 1]

\* scheduleNext: clearTimeout(timer); timer = setTimeout(...)
scheduleNext(r) ==
    [r EXCEPT !.pending = (@ \ {r.timer}) \cup {r.nextId},
              !.timer = r.nextId,
              !.nextId = @ + 1]

\* stop: clearTimeout(timer)
runnerStop(r) == [r EXCEPT !.pending = @ \ {r.timer}, !.stopped = TRUE]

\* the end of a timer callback: the catch, if any, and scheduleNext()
callbackEnd(r, outcome) ==
    scheduleNext([r EXCEPT !.completed = @ + 1, !.outcomes = @ \cup {outcome}])

\* createDailyRunner(fn, timeStr, dayFilter): the runner after scheduleNext()
createDailyRunner(hasFilter) ==
    scheduleNext([pc |-> "on", hasFilter |-> hasFilter, timer |-> 0, pending |-> {},
                  nextId |-> 1, running |-> 0, completed |-> 0, outcomes |-> {},
                  stopped |-> FALSE, startedAfterStop |-> FALSE,
                  rescheduledInRun |-> FALSE])

InitRunner ==
    /\ runner \in {createDailyRunner(f) : f \in BOOLEAN}
    /\ WrapIdle
    /\ BuildIdle
    /\ CallsIdle
    /\ EscapeIdle
    /\ StripIdle
    /\ MorningIdle

RunnerRest ==
    UNCHANGED <<wstr, wmax, wout, wpc, breq, btickets, bpc, estr, eout, epc,
                sstr, sout, spc, morning, ncalls, call>>

\* whether a timer can still be set within the bound
CanSchedule == runner.nextId <= MaxTimers

\* timer t fires on a day the filter accepts, or without a filter: fn() is
\* called and awaited
TimerFiresAndRuns(t) ==
    /\ t \in runner.pending
    /\ runner' = [runner EXCEPT !.pending = @ \ {t},
                                !.running = @ + 1,
                                !.startedAfterStop = @ \/ runner.stopped]
    /\ RunnerRest

\* timer t fires on a day the filter rejects: the callback ends at once
TimerFiresFiltered(t) ==
    /\ t \in runner.pending
    /\ runner.hasFilter
    /\ CanSchedule
    /\ runner' = callbackEnd([runner EXCEPT !.pending = @ \ {t}], "filtered")
    /\ RunnerRest

\* timer t fires and the filter throws: the catch runs, the callback ends
TimerFiresFilterThrows(t) ==
    /\ t \in runner.pending
    /\ runner.hasFilter
    /\ CanSchedule
    /\ runner' = callbackEnd([runner EXCEPT !.pending = @ \ {t}], "filterThrew")
    /\ RunnerRest

\* an awaited fn() resolved
RunResolved ==
    /\ runner.pc = "on"
    /\ runner.running > 0
    /\ CanSchedule
    /\ runner' = callbackEnd([runner EXCEPT !.running = @ - 1], "resolved")
    /\ RunnerRest

\* an awaited fn() rejected
RunRejected ==
    /\ runner.pc = "on"
    /\ runner.running > 0
    /\ CanSchedule
    /\ runner' = callbackEnd([runner EXCEPT !.running = @ - 1], "rejected")
    /\ RunnerRest

\* the caller calls reschedule()
Reschedule ==
    /\ runner.pc = "on"
    /\ CanSchedule
    /\ runner' = scheduleNext([runner EXCEPT !.stopped = FALSE,
                                             !.rescheduledInRun = @ \/ runner.running > 0])
    /\ RunnerRest

\* the caller calls stop()
Stop ==
    /\ runner.pc = "on"
    /\ ~runner.stopped
    /\ runner' = runnerStop(runner)
    /\ RunnerRest

NextRunner ==
    \/ \E t \in 1..MaxTimers :
        \/ TimerFiresAndRuns(t)
        \/ TimerFiresFiltered(t)
        \/ TimerFiresFilterThrows(t)
    \/ RunResolved
    \/ RunRejected
    \/ Reschedule
    \/ Stop

SpecRunner == InitRunner /\ [][NextRunner]_vars

-----------------------------------------------------------------------------
(* Properties *)

\* whether bytes ends with tail
EndsWith(bytes, tail) ==
    /\ Len(bytes) >= Len(tail)
    /\ SubSeq(bytes, Len(bytes) - Len(tail) + 1, Len(bytes)) = tail

\* the parts of a ticket pushed by the source section `role`
PartsOf(ticket, role) == SelectSeq(ticket, LAMBDA p : p.role = role)

IsPrintCall(c) == c <= ncalls /\ call[c].op \in {"printTasks", "printWifiQr"}

\* whether the parameters of a call fail its validation
FailsValidation(rec) ==
    \/ rec.op = "printTasks"
       /\ (rec.params.host = "" \/ ~rec.params.isArray \/ rec.params.tasks = <<>>)
    \/ rec.op = "printWifiQr"
       /\ (rec.params.host = "" \/ rec.params.ssid = <<>>)

\* the events of a log whose type is one of types
EventsOf(ev, types) == SelectSeq(ev, LAMBDA e : e.type \in types)

\* the events that run a listener or callback which settles a print call
SettlingEvents(ev) == EventsOf(ev, {"flushed", "writefailed", "error", "timeout"})

\* C1: every payload a ticket builder produces ends with feed(3) and the full
\* cut, the seven bytes 1B 64 03 1D 56 42 00, and so does the payload of a
\* print call, which is the concatenation of its tickets.
C1_PayloadEndsWithTrailer ==
    bpc = "done" =>
        /\ btickets # <<>>
        /\ \A i \in 1..Len(btickets) :
              EndsWith(BufferConcat(btickets[i]), <<27, 100, 3, 29, 86, 66, 0>>)
        /\ EndsWith(PayloadOf(btickets), <<27, 100, 3, 29, 86, 66, 0>>)

\* two single tickets were built for two tasks, one of them with a description
C1_Witness ==
    /\ bpc = "done"
    /\ breq.op = "printTasks"
    /\ printMode(breq) = "single"
    /\ Len(btickets) = 2
    /\ \E i \in 1..2 : breq.tasks[i].description # <<>>

\* C2: a printTasks call with a missing host or with tasks that is no array
\* or is empty, and a printWifiQr call with a missing host or SSID, is
\* rejected with a validation error, and in no state has it created a socket,
\* received a socket event or written a byte.
C2_ValidationBeforeSocket ==
    \A c \in 1..ncalls :
        FailsValidation(call[c]) =>
            /\ call[c].promise = "rejected"
            /\ call[c].value \in { <<"Error", "Printer host is missing">>,
                                   <<"Error", "No tasks to print">>,
                                   <<"Error", "SSID is required">> }
            /\ call[c].created = 0
            /\ call[c].sock = "none"
            /\ call[c].writes = 0
            /\ call[c].written = <<>>
            /\ call[c].ev = <<>>

\* printTasks was called with an empty task list and printWifiQr without SSID
C2_Witness ==
    /\ \E c \in 1..ncalls :
          /\ call[c].op = "printTasks"
          /\ call[c].params.host # ""
          /\ call[c].params.isArray
          /\ call[c].params.tasks = <<>>
          /\ call[c].promise = "rejected"
    /\ \E c \in 1..ncalls :
          /\ call[c].op = "printWifiQr"
          /\ call[c].params.host # ""
          /\ call[c].params.ssid = <<>>
          /\ call[c].promise = "rejected"

\* C3: a print call is resolved only when its connection was established, the
\* write of its whole payload was confirmed flushed and the connection was
\* ended; a call whose connect or write failed is not resolved.
C3_ResolvedOnlyAfterFlush ==
    \A c \in 1..ncalls :
        (IsPrintCall(c) /\ call[c].promise = "resolved") =>
            /\ call[c].connected
            /\ call[c].written = call[c].payload
            /\ call[c].wstate = "flushed"
            /\ call[c].ended

C5_ErrorAndTimeoutDistinct ==
    \A c \in 1..ncalls :
        IsPrintCall(c) =>
            LET e == SettlingEvents(call[c].ev)
                first == IF e = <<>> THEN "none" ELSE e[1].type
            IN
            /\ first = "error" =>
                /\ call[c].promise = "rejected"
                /\ call[c].value =
                      <<"Error", "Printer error: ",
                        IF e[1].err.code # "" THEN e[1].err.code ELSE e[1].err.message>>
            /\ first = "timeout" =>
                /\ call[c].promise = "rejected"
                /\ call[c].value = <<"Error", "Printer connection timed out">>
                /\ call[c].sock = "destroyed"
            /\ (call[c].promise = "rejected" /\ call[c].value[2] = "Printer error: ")
                  => first = "error"
            /\ (call[c].promise = "rejected"
                /\ call[c].value[2] = "Printer connection timed out")
                  => first = "timeout"

\* one print call timed out after its connect while another was rejected by a
\* socket error that carries no code
C5_Witness ==
    /\ \E c \in 1..ncalls :
          /\ IsPrintCall(c)
          /\ Len(call[c].ev) >= 2
          /\ call[c].ev[1].type = "connect"
          /\ call[c].ev[2].type = "timeout"
          /\ call[c].promise = "rejected"
    /\ \E c \in 1..ncalls :
          /\ IsPrintCall(c)
          /\ call[c].ev # <<>>
          /\ call[c].ev[1].type = "error"
          /\ call[c].ev[1].err.code = ""
          /\ call[c].promise = "rejected"

\* C6: a print call that passes validation has created exactly one
\* connection, in every state and whatever events its socket delivered.
C6_OneConnectionPerCall ==
    \A c \in 1..ncalls :
        (IsPrintCall(c) /\ ~FailsValidation(call[c])) => call[c].created = 1

\* a daily print of two tasks was rejected by a socket error and a WiFi print
\* by a timeout
C6_Witness ==
    /\ \E c \in 1..ncalls :
          /\ call[c].op = "printTasks"
          /\ ~FailsValidation(call[c])
          /\ Len(call[c].params.tasks) = 2
          /\ call[c].promise = "rejected"
          /\ \E i \in 1..Len(call[c].ev) : call[c].ev[i].type = "error"
    /\ \E c \in 1..ncalls :
          /\ call[c].op = "printWifiQr"
          /\ ~FailsValidation(call[c])
          /\ call[c].promise = "rejected"
          /\ \E i \in 1..Len(call[c].ev) : call[c].ev[i].type = "timeout"

\* C7: concurrent calls share nothing: after every step the bytes written to
\* the socket of a print call are the payload that call built, handed over in
\* one write, and a step that delivers an event of one call's socket leaves
\* every other call as it was.
C7_CallsAreIndependent ==
    [][/\ \A c \in 1..NumCalls :
            (c <= ncalls' /\ call'[c].op \in {"printTasks", "printWifiQr"}
             /\ call'[c].writes > 0) =>
                /\ call'[c].writes = 1
                /\ call'[c].written = call'[c].payload
       /\ \A c \in 1..ncalls : \A d \in 1..ncalls :
            (c # d /\ call'[c].ev # call[c].ev) => call'[d] = call[d]]_vars

\* two print calls with different payloads were in flight together; one was
\* resolved after the other had been rejected
C7_Witness ==
    /\ ncalls = 2
    /\ IsPrintCall(1)
    /\ IsPrintCall(2)
    /\ call[1].writes = 1
    /\ call[2].writes = 1
    /\ call[1].written # call[2].written
    /\ call[1].ev[1].type = "connect"
    /\ call[1].promise = "resolved"
    /\ call[2].promise = "rejected"

\* whether a line is one word: not empty and without whitespace
IsSingleWord(line) ==
    /\ line # <<>>
    /\ \A i \in 1..Len(line) : ~IsSpace(line[i])

\* C8: every line wrapTextNoBreak(text, W) returns, for W >= 1, has at most W
\* characters, except a line that is one single word longer than W.
C8_LinesWithinWidth ==
    wpc = "done" =>
        \A i \in 1..Len(wout) :
            StrLen(wout[i]) <= wmax \/ IsSingleWord(wout[i])

\* a text was wrapped into a line of one word longer than the width and a
\* line that fills the width exactly
C8_Witness ==
    /\ wpc = "done"
    /\ \E i \in 1..Len(wout) : StrLen(wout[i]) > wmax
    /\ \E i \in 1..Len(wout) : StrLen(wout[i]) = wmax

\* C9: for a string shorter than W, wrapTextNoBreak returns exactly one line,
\* the input without its leading and trailing whitespace.
C9_ShortTextIsOneTrimmedLine ==
    (wpc = "done" /\ StrLen(wstr) < wmax) => wout = <<Trim(wstr)>>

\* C10: every input task contributes at least one title line: each ticket of
\* single mode has a title line, and a daily or weekly ticket has as many
\* task entries as there are input tasks.
C10_EveryTaskHasTitleLine ==
    (bpc = "done" /\ breq.op = "printTasks") =>
        IF printMode(breq) = "single"
        THEN /\ Len(btickets) = Len(breq.tasks)
             /\ \A i \in 1..Len(btickets) : Len(PartsOf(btickets[i], "title")) >= 1
        ELSE /\ Len(btickets) = 1
             /\ Len(PartsOf(btickets[1], "title")) = Len(breq.tasks)

\* whether a single-mode build has finished
SingleDone == bpc = "done" /\ breq.op = "printTasks" /\ printMode(breq) = "single"

\* whether a weekly build has finished
WeeklyDone == bpc = "done" /\ breq.op = "printTasks" /\ printMode(breq) = "weekly"

\* the size n the n-by-n text size command selects, 0 when it is no such command
SizeOf(bytes) ==
    IF \E n \in 1..8 : bytes = <<29, 33, (n - 1) * 17>>
    THEN CHOOSE n \in 1..8 : bytes = <<29, 33, (n - 1) * 17>>
    ELSE 0

\* the characters of a printed line, without its line feed
LineChars(bytes) == SubSeq(bytes, 1, Len(bytes) - 1)

\* C11: in single mode the title is printed at size 3 when the cleaned title
\* has at most 20 characters and at size 2 otherwise, and every title line
\* fits floor(32 / size) columns unless it is one single word.
C11_TitleSizeByCleanedLength ==
    SingleDone =>
        \A i \in 1..Len(btickets) :
            LET cleaned == cleanTitle(breq.tasks[i].title)
                size == SizeOf(PartsOf(btickets[i], "size")[3].bytes)
                lines == PartsOf(btickets[i], "title")
            IN  /\ size = (IF StrLen(cleaned) <= 20 THEN 3 ELSE 2)
                /\ \A n \in 1..Len(lines) :
                      \/ Len(LineChars(lines[n].bytes)) <= 32 \div size
                      \/ IsSingleWord(LineChars(lines[n].bytes))

\* the letters the claim names: a-umlaut, o-umlaut, u-umlaut and sharp s
AccentedLetters == {228, 246, 252, 223}

\* the bytes of all title lines of a ticket
TitleBytes(ticket) ==
    LET lines == PartsOf(ticket, "title")
    IN  Concat([n \in 1..Len(lines) |-> lines[n].bytes])

\* C12: in a single-mode ticket every accented letter of the cleaned task
\* title appears in the title lines as the code-page byte of that same letter,
\* and no title line holds the lead byte 0xC3 of its UTF-8 encoding.
C12_AccentedLetterKeepsItsByte ==
    SingleDone =>
        \A i \in 1..Len(btickets) :
            LET cleaned == cleanTitle(breq.tasks[i].title)
                bytes == TitleBytes(btickets[i])
            IN  /\ \A m \in 1..Len(bytes) : bytes[m] # 195
                /\ \A n \in 1..Len(cleaned) :
                      cleaned[n] \in AccentedLetters =>
                          \E m \in 1..Len(bytes) : bytes[m] = cleaned[n]

\* the QR block of a string: error correction, module size, the stored data
\* (one byte per UTF-16 code unit, after its length plus three) and the print
\* command
QrBlock(str, size) ==
    LET data == [n \in 1..Len(Units(str)) |-> Units(str)[n] % 256]
    IN  <<29, 40, 107, 3, 0, 49, 69, 48>>
        \o <<29, 40, 107, 3, 0, 49, 67, size>>
        \o <<29, 40, 107, (Len(data) + 3) % 256, (Len(data) + 3) \div 256, 49, 80, 48>>
        \o data
        \o <<29, 40, 107, 3, 0, 49, 81, 48>>

\* C13: every single-mode ticket has one QR block, of module size 8, whose
\* data is 'donotick:' followed by the task id when the id is truthy and by
\* the task title as given when the id is falsy.
C13_QrDataIsIdOrTitle ==
    SingleDone =>
        \A i \in 1..Len(btickets) :
            LET task == breq.tasks[i]
                qr == PartsOf(btickets[i], "qr")
            IN  /\ Len(qr) = 1
                /\ task.id # <<>> =>
                      qr[1].bytes = QrBlock(<<100, 111, 110, 111, 116, 105, 99, 107, 58>>
                                            \o task.id, 8)
                /\ task.id = <<>> =>
                      qr[1].bytes = QrBlock(<<100, 111, 110, 111, 116, 105, 99, 107, 58>>
                                            \o task.title, 8)

\* two single tickets were built, one for a task with an id and a title and
\* one for a task with a title and no id
C13_Witness ==
    /\ SingleDone
    /\ Len(btickets) = 2
    /\ \E i \in 1..2 : breq.tasks[i].id # <<>> /\ breq.tasks[i].title # <<>>
    /\ \E i \in 1..2 : breq.tasks[i].id = <<>> /\ breq.tasks[i].title # <<>>

\* the positions of the bucket headers in a ticket, in order
BucketAt(ticket) ==
    SelectSeq([i \in 1..Len(ticket) |-> i], LAMBDA i : ticket[i].role = "bucket")

\* the header ' OHNE DATUM ' as printed
OhneDatumBytes == <<32, 79, 72, 78, 69, 32, 68, 65, 84, 85, 77, 32>>

\* the positions of the headers of the dated buckets
DatedAt(ticket) ==
    SelectSeq(BucketAt(ticket), LAMBDA i : ticket[i].bytes # OhneDatumBytes)

\* the first title lines of the task entries listed under the bucket header
\* at position `from`: those before the next header or rule
SectionTitles(ticket, from) ==
    LET stops == {j \in (from + 1)..Len(ticket) : ticket[j].role \in {"bucket", "hr"}}
        stop == CHOOSE j \in stops : \A k \in stops : j <= k
    IN  PartsOf(SubSeq(ticket, from + 1, stop - 1), "title")

\* the number printed in parentheses after the bucket header at `from`
SectionCount(ticket, from) ==
    CHOOSE n \in 0..99 :
        ticket[from + 2].bytes = <<32, 40>> \o DecStr(n) \o <<41, 10>>

\* the first title lines the entries of a task list print, in order
EntryTitles(tasks) ==
    Concat([i \in 1..Len(tasks) |-> PartsOf(TaskEntry(tasks[i], FALSE), "title")])

\* the days of January and February 2024, numbered from 2024-01-01
DayKeys == 0..59

\* the header of the bucket of a day: weekday, day of the month and month
\* (2024-01-01 was a Monday)
HeaderOfKey(key) ==
    <<32>> \o dayNames[((key + 1) % 7) + 1] \o <<32>>
    \o DecStr(IF key < 31 THEN key + 1 ELSE key - 30) \o <<46>>
    \o DecStr(IF key < 31 THEN 1 ELSE 2) \o <<32>>

\* the day whose header the bytes are
KeyOfHeader(bytes) == CHOOSE k \in DayKeys : HeaderOfKey(k) = bytes

\* the UTC calendar day of a valid due value
UtcDay(task) == task.due.t \div 24

\* C14: in a weekly ticket the headers of the dated buckets are those of
\* strictly ascending days, whatever the input order, so no day appears
\* twice; and every task with a valid due value is listed, in input order,
\* under the header of the UTC calendar day of its due value.
C14_BucketsAscending ==
    WeeklyDone =>
        LET ticket == btickets[1]
            at == DatedAt(ticket)
            keys == [n \in 1..Len(at) |-> KeyOfHeader(ticket[at[n]].bytes)]
        IN  /\ \A n \in 1..Len(at) :
                  \E k \in DayKeys : HeaderOfKey(k) = ticket[at[n]].bytes
            /\ \A n \in 1..(Len(at) - 1) : keys[n] < keys[n + 1]
            /\ \A i \in 1..Len(breq.tasks) :
                  breq.tasks[i].due.kind = "date" =>
                      \E n \in 1..Len(at) : keys[n] = UtcDay(breq.tasks[i])
            /\ \A n \in 1..Len(at) :
                  SectionTitles(ticket, at[n]) =
                      EntryTitles(SelectSeq(breq.tasks,
                          LAMBDA t : t.due.kind = "date" /\ UtcDay(t) = keys[n]))

\* a weekly ticket was built for two tasks given latest day first
C14_Witness ==
    /\ WeeklyDone
    /\ Len(breq.tasks) = 2
    /\ breq.tasks[1].due.kind = "date"
    /\ breq.tasks[2].due.kind = "date"
    /\ UtcDay(breq.tasks[1]) > UtcDay(breq.tasks[2])
    /\ Len(DatedAt(btickets[1])) = 2

\* the positions of the 'OHNE DATUM' headers in a ticket
OhneDatumAt(ticket) ==
    SelectSeq(BucketAt(ticket), LAMBDA i : ticket[i].bytes = OhneDatumBytes)

\* the tasks that have no due value, in input order
TasksWithoutDue(tasks) == SelectSeq(tasks, LAMBDA t : t.due.kind = "none")

\* C15: a weekly ticket has the 'OHNE DATUM' bucket exactly when some task
\* has no due value, and then once; the bucket is the last one of the ticket,
\* lists exactly the tasks without due in input order and prints their number
\* in parentheses.
C15_OhneDatumBucket ==
    WeeklyDone =>
        LET ticket == btickets[1]
            all == BucketAt(ticket)
            ohne == OhneDatumAt(ticket)
            noDue == TasksWithoutDue(breq.tasks)
        IN  /\ Len(ohne) = (IF noDue # <<>> THEN 1 ELSE 0)
            /\ ohne # <<>> =>
                /\ ohne[1] = all[Len(all)]
                /\ SectionTitles(ticket, ohne[1]) = EntryTitles(noDue)
                /\ ticket[ohne[1] + 2].bytes
                      = <<32, 40>> \o DecStr(Len(noDue)) \o <<41, 10>>

\* a weekly ticket was built for a task without due followed by a dated task
C15_Witness ==
    /\ WeeklyDone
    /\ Len(breq.tasks) = 2
    /\ breq.tasks[1].due.kind = "none"
    /\ breq.tasks[2].due.kind = "date"
    /\ Len(BucketAt(btickets[1])) = 2
    /\ OhneDatumAt(btickets[1]) # <<>>

\* the sum of a sequence of numbers
RECURSIVE SumSeq(_)
SumSeq(ns) == IF ns = <<>> THEN 0 ELSE Head(ns) + SumSeq(Tail(ns))

\* the numbers printed in parentheses after the bucket headers of a ticket
BucketCounts(ticket) ==
    LET at == BucketAt(ticket)
    IN  [n \in 1..Len(at) |-> SectionCount(ticket, at[n])]

\* the line 'GESAMT: n Aufgaben' as printed
TotalLine(n) ==
    <<71, 69, 83, 65, 77, 84, 58, 32>> \o DecStr(n)
    \o <<32, 65, 117, 102, 103, 97, 98, 101, 110, 10>>

\* C16: a weekly ticket prints one line 'GESAMT: N Aufgaben', where N is the
\* sum of the numbers printed in parentheses after the headers of all buckets,
\* dated and undated, and is the number of task entries the ticket lists.
C16_TotalIsSumOfBuckets ==
    WeeklyDone =>
        LET ticket == btickets[1]
            at == BucketAt(ticket)
            total == PartsOf(ticket, "total")
        IN  /\ \A n \in 1..Len(at) :
                  \E k \in 0..99 :
                      ticket[at[n] + 2].bytes = <<32, 40>> \o DecStr(k) \o <<41, 10>>
            /\ Len(total) = 1
            /\ total[1].bytes = TotalLine(SumSeq(BucketCounts(ticket)))
            /\ SumSeq(BucketCounts(ticket)) = Len(PartsOf(ticket, "title"))

\* a weekly ticket with a dated and an undated bucket was built, one of its
\* entries for a task with an empty title
C16_Witness ==
    /\ WeeklyDone
    /\ Len(breq.tasks) = 2
    /\ \E i \in 1..2 : breq.tasks[i].title = <<>>
    /\ Len(DatedAt(btickets[1])) = 1
    /\ OhneDatumAt(btickets[1]) # <<>>
    /\ PartsOf(btickets[1], "total")[1].bytes = TotalLine(2)

\* whether the bytes sub occur in bytes as one run
Contains(bytes, sub) ==
    \E k \in 0..(Len(bytes) - Len(sub)) : SubSeq(bytes, k + 1, k + Len(sub)) = sub

\* C17: when printTasks is given a headerTitle, the header of a daily ticket
\* shows that title and not the default 'HEUTE DD.MM', and a single or weekly
\* ticket is the one built without the headerTitle.
C17_HeaderTitleOverridesDaily ==
    (bpc = "done" /\ breq.op = "printTasks" /\ breq.headerTitle # <<>>) =>
        IF printMode(breq) = "daily"
        THEN LET header == PartsOf(btickets[1], "header")[1].bytes
             IN  /\ Contains(header, breq.headerTitle)
                 /\ ~Contains(header, <<72, 69, 85, 84, 69>>)
        ELSE btickets = printTasksTickets([breq EXCEPT !.headerTitle = <<>>])

\* the builder that made a ticket, told by what only that builder prints:
\* the banner of the single ticket, the first header line of the others
KindOf(ticket) ==
    LET header == PartsOf(ticket, "header")
    IN  CASE PartsOf(ticket, "banner") # <<>> -> "single"
          [] header # <<>> /\ Contains(header[1].bytes, <<72, 69, 85, 84, 69>>) -> "daily"
          [] header # <<>> /\ Contains(header[1].bytes,
                                       <<87, 79, 67, 72, 69, 78, 80, 76, 65, 78>>) -> "weekly"
          [] OTHER -> "none"

\* the builder kinds of the tickets of the finished build
KindsBuilt == {KindOf(btickets[i]) : i \in 1..Len(btickets)}

\* whether the finished build made one ticket per task with the single builder
\* (kind "single") or one ticket for all tasks with the builder of that kind
BuiltBy(kind) ==
    /\ KindsBuilt = {kind}
    /\ Len(btickets) = (IF kind = "single" THEN Len(breq.tasks) ELSE 1)

\* C18: printTasks runs one builder kind per call: the builder of an explicit
\* mode 'single', 'daily' or 'weekly' whatever the task count; with no mode
\* given, the single builder for exactly one task unless compact is set, and
\* the daily builder for more than one task or when compact is set.
C18_ModeSelectsBuilder ==
    (bpc = "done" /\ breq.op = "printTasks") =>
        /\ Cardinality(KindsBuilt) = 1
        /\ breq.mode \in {"single", "daily", "weekly"} => BuiltBy(breq.mode)
        /\ (breq.mode = "" /\ Len(breq.tasks) = 1 /\ ~breq.compact) => BuiltBy("single")
        /\ (breq.mode = "" /\ (Len(breq.tasks) > 1 \/ breq.compact)) => BuiltBy("daily")

\* C18 as stated, without regard to compact: with no mode given, exactly one
\* task selects the single builder and more than one the daily builder.
C18_ModeSelectsBuilder_AsStated ==
    (bpc = "done" /\ breq.op = "printTasks") =>
        /\ Cardinality(KindsBuilt) = 1
        /\ breq.mode \in {"single", "daily", "weekly"} => BuiltBy(breq.mode)
        /\ (breq.mode = "" /\ Len(breq.tasks) = 1) => BuiltBy("single")
        /\ (breq.mode = "" /\ Len(breq.tasks) > 1) => BuiltBy("daily")

\* a build ran for one task with no mode and no compact flag, and the single
\* builder made the ticket
C18_Witness ==
    /\ bpc = "done"
    /\ breq.op = "printTasks"
    /\ breq.mode = ""
    /\ ~breq.compact
    /\ Len(breq.tasks) = 1
    /\ BuiltBy("single")

\* whether bytes begins with head
StartsWith(bytes, head) ==
    /\ Len(bytes) >= Len(head)
    /\ SubSeq(bytes, 1, Len(head)) = head

\* whether call c is a printTasks call in single mode that passed validation
IsSingleCall(c) ==
    /\ c <= ncalls
    /\ call[c].op = "printTasks"
    /\ ~FailsValidation(call[c])
    /\ printMode(call[c].params) = "single"

\* C19: a step in which a single-mode call with tasks t1..tn writes to its
\* socket makes the call's only write, and the bytes written are ticket(t1),
\* ..., ticket(tn) one after the other in input order, where every ticket
\* begins with the init sequence 1B 40 1B 74 10 and ends with the trailer.
C19_SinglePayloadInInputOrder ==
    [][\A c \in 1..NumCalls :
          (IsSingleCall(c) /\ call'[c].writes # call[c].writes) =>
              LET tasks == call[c].params.tasks
                  tickets == [i \in 1..Len(tasks) |->
                                 BufferConcat(buildSingleTaskTicket(tasks[i]))]
              IN  /\ call[c].writes = 0
                  /\ call'[c].writes = 1
                  /\ call'[c].written = Concat(tickets)
                  /\ \A i \in 1..Len(tickets) :
                        /\ StartsWith(tickets[i], <<27, 64, 27, 116, 16>>)
                        /\ EndsWith(tickets[i], <<27, 100, 3, 29, 86, 66, 0>>)]_vars

\* a single-mode call with two different tasks wrote its payload and was
\* resolved
C19_Witness ==
    \E c \in 1..ncalls :
        /\ IsSingleCall(c)
        /\ Len(call[c].params.tasks) = 2
        /\ call[c].params.tasks[1] # call[c].params.tasks[2]
        /\ call[c].writes = 1
        /\ call[c].wstate = "flushed"
        /\ call[c].promise = "resolved"

\* the reverse of the escaping: every backslash that is followed by a
\* character is removed and that character is kept as it is
RECURSIVE Unescape(_)
Unescape(str) ==
    IF str = <<>> THEN <<>>
    ELSE IF Head(str) = 92 /\ Len(str) >= 2
         THEN <<str[2]>> \o Unescape(SubSeq(str, 3, Len(str)))
         ELSE <<Head(str)>> \o Unescape(Tail(str))

\* the characters \ ; , : "
WifiReserved == {92, 59, 44, 58, 34}

\* C20: removing from escapeWifiString(s) the backslash before each escaped
\* character gives s back, and escapeWifiString(s) is s with one backslash put
\* before each of the characters \ ; , : " and every other character as it is.
C20_WifiEscapeRoundTrips ==
    epc = "done" =>
        /\ Unescape(eout) = estr
        /\ eout = Concat([i \in 1..Len(estr) |->
                            IF estr[i] \in WifiReserved THEN <<92, estr[i]>>
                            ELSE <<estr[i]>>])

\* a string with a backslash before an ordinary character and with a double
\* quote was escaped
C20_Witness ==
    /\ epc = "done"
    /\ \E i \in 1..(Len(estr) - 1) : estr[i] = 92 /\ estr[i + 1] = 97
    /\ \E i \in 1..Len(estr) : estr[i] = 34
    /\ Len(eout) = Len(estr) + 2

\* whether a WiFi build has finished
WifiDone == bpc = "done" /\ breq.op = "printWifiQr"

\* a string with one backslash before each of the characters \ ; , : "
WifiEscaped(str) ==
    Concat([i \in 1..Len(str) |->
              IF str[i] \in WifiReserved THEN <<92, str[i]>> ELSE <<str[i]>>])

\* C21: the QR block of a WiFi ticket has module size 10 and holds
\* 'WIFI:T:<type>;S:<escaped ssid>;', then 'P:<escaped password>;' exactly
\* when the type is not 'nopass' and the password is not empty, then
\* 'H:true;' exactly when hidden is true, then ';'; the type is 'WPA' when
\* none is given.
C21_WifiString ==
    WifiDone =>
        LET type == IF breq.type = Undefined THEN <<87, 80, 65>> ELSE breq.type
            withP == type # <<110, 111, 112, 97, 115, 115>> /\ breq.password # <<>>
            expected ==
                <<87, 73, 70, 73, 58, 84, 58>> \o type
                \o <<59, 83, 58>> \o WifiEscaped(breq.ssid) \o <<59>>
                \o (IF withP THEN <<80, 58>> \o WifiEscaped(breq.password) \o <<59>>
                    ELSE <<>>)
                \o (IF breq.hidden THEN <<72, 58, 116, 114, 117, 101, 59>> ELSE <<>>)
                \o <<59>>
            qr == PartsOf(btickets[1], "qr")
        IN  /\ Len(btickets) = 1
            /\ Len(qr) = 1
            /\ qr[1].bytes = QrBlock(expected, 10)

\* a WiFi ticket was built for a hidden network with no type given, an SSID
\* and a password that need escaping
C21_Witness ==
    /\ WifiDone
    /\ breq.type = Undefined
    /\ breq.hidden
    /\ \E i \in 1..Len(breq.ssid) : breq.ssid[i] \in WifiReserved
    /\ \E i \in 1..Len(breq.password) : breq.password[i] \in WifiReserved
    /\ Contains(PartsOf(btickets[1], "qr")[1].bytes, <<59, 80, 58>>)

\* the code points the claim names: the five pictographic ranges, the
\* variation selectors, the zero-width joiner and the tag characters
IsPictographic(c) ==
    \/ (c >= 127744 /\ c <= 129535)
    \/ (c >= 9728 /\ c <= 9983)
    \/ (c >= 9984 /\ c <= 10175)
    \/ (c >= 126976 /\ c <= 127023)
    \/ (c >= 127136 /\ c <= 127231)
    \/ (c >= 65024 /\ c <= 65039)
    \/ c = 8205
    \/ (c >= 917504 /\ c <= 917631)

\* the characters of a string that are neither whitespace nor named by the
\* claim, in order
KeptChars(str) == SelectSeq(str, LAMBDA c : ~IsSpace(c) /\ ~IsPictographic(c))

\* C22: the result of stripEmoji has no code point of the pictographic
\* ranges, no variation selector, joiner or tag character, no whitespace at
\* either end and no two whitespace characters in a row, and its other
\* characters are those of the input in the same order.
C22_StripEmojiResult ==
    spc = "done" =>
        /\ \A i \in 1..Len(sout) : ~IsPictographic(sout[i])
        /\ sout # <<>> => (~IsSpace(sout[1]) /\ ~IsSpace(sout[Len(sout)]))
        /\ \A i \in 1..(Len(sout) - 1) : ~(IsSpace(sout[i]) /\ IsSpace(sout[i + 1]))
        /\ SelectSeq(sout, LAMBDA c : ~IsSpace(c)) = KeptChars(sstr)

\* a string with an emoji between two spaces between two letters was
\* stripped to the letters and one space
C22_Witness ==
    /\ spc = "done"
    /\ sstr = <<97, 32, 128512, 32, 97>>
    /\ sout = <<97, 32, 97>>

\* the words of a string: its maximal runs of characters that are not
\* whitespace, in order; cur is the word being read
RECURSIVE WordsFrom(_, _)
WordsFrom(str, cur) ==
    IF str = <<>> THEN (IF cur = <<>> THEN <<>> ELSE <<cur>>)
    ELSE IF IsSpace(Head(str))
         THEN (IF cur = <<>> THEN <<>> ELSE <<cur>>) \o WordsFrom(Tail(str), <<>>)
         ELSE WordsFrom(Tail(str), Append(cur, Head(str)))

WordsOf(str) == WordsFrom(str, <<>>)

\* C23: the words of the lines wrapTextNoBreak returns, read in order, are
\* the words of the input in the same order, each once and whole; and every
\* line but the first starts with a word that did not fit on the line before
\* it: the length of that line, plus one, plus the length of the word exceeds
\* the width.
C23_WrapKeepsWordsAndIsGreedy ==
    wpc = "done" =>
        /\ Concat([i \in 1..Len(wout) |-> WordsOf(wout[i])]) = WordsOf(wstr)
        /\ \A i \in 1..Len(wout) : WordsOf(wout[i]) # <<>>
        /\ \A i \in 1..(Len(wout) - 1) :
              Len(wout[i]) + 1 + Len(WordsOf(wout[i + 1])[1]) > wmax

\* a text of three words was wrapped into a line of two words and a line of
\* one word
C23_Witness ==
    /\ wpc = "done"
    /\ Len(WordsOf(wstr)) = 3
    /\ Len(wout) = 2
    /\ Len(WordsOf(wout[1])) = 2

\* whether entry k of the morning log is an event of the given type
IsEv(k, type) == morning.log[k].type = type

\* the positions of the morning log
LogAt == 1..Len(morning.log)

\* whether the run has started
MorningRuns == morning.pc # "off"

\* C24: in a morning run the tasks are recorded in the daily state before the
\* first ticket is printed; completeTask and markPrinted are called only
\* after the ticket of every task was printed; and when the print of a task
\* ticket fails the run ends at once, without a completeTask or markPrinted
\* call, and with lastRunError set.
C24_RecordThenPrintThenComplete ==
    MorningRuns =>
        /\ \A k \in LogAt :
              IsEv(k, "print") =>
                  /\ \E j \in 1..(k - 1) : IsEv(j, "record")
                  /\ morning.daily = morning.tasks
        /\ \A k \in LogAt :
              (IsEv(k, "complete") \/ IsEv(k, "markPrinted")) =>
                  \A n \in 1..Len(morning.tasks) :
                      \E j \in 1..(k - 1) : IsEv(j, "printed") /\ morning.log[j].arg = n
        /\ (\E k \in LogAt : IsEv(k, "printFailed")) =>
              /\ \A j \in LogAt : ~IsEv(j, "complete") /\ ~IsEv(j, "markPrinted")
              /\ morning.pc = "done"
              /\ morning.lastRunError # "null"

\* C24 as stated, for any print of the run, the weekly summary of a Monday
\* included: when a print fails no completeTask and no markPrinted call is
\* made in the run.
C24_AnyPrintFailure_AsStated ==
    MorningRuns =>
        /\ \A k \in LogAt :
              IsEv(k, "print") =>
                  /\ \E j \in 1..(k - 1) : IsEv(j, "record")
                  /\ morning.daily = morning.tasks
        /\ \A k \in LogAt :
              (IsEv(k, "complete") \/ IsEv(k, "markPrinted")) =>
                  \A n \in 1..Len(morning.tasks) :
                      \E j \in 1..(k - 1) : IsEv(j, "printed") /\ morning.log[j].arg = n
        /\ (\E k \in LogAt : IsEv(k, "printFailed") \/ IsEv(k, "weeklyFailed")) =>
              /\ \A j \in LogAt : ~IsEv(j, "complete") /\ ~IsEv(j, "markPrinted")
              /\ morning.pc = "done"
              /\ morning.lastRunError # "null"

\* a run that started without an error on record printed its first task and
\* failed to print the second
C24_Witness ==
    /\ MorningRuns
    /\ morning.pc = "done"
    /\ Len(morning.tasks) >= 2
    /\ \E k \in LogAt : IsEv(k, "printed") /\ morning.log[k].arg = 1
    /\ \E k \in LogAt : IsEv(k, "printFailed") /\ morning.log[k].arg = 2
    /\ morning.lastRunError = "print failed"

\* whether a runner exists
RunnerOn == runner.pc = "on"

\* C25: after every step at most one timer of the runner is pending, and a
\* step that ends a timer callback (the day filter rejected the day or threw,
\* or fn resolved or rejected) leaves exactly one timer pending, newly set,
\* also when reschedule() was called while fn was running.
C25_AlwaysReschedulesOneTimer ==
    [][RunnerOn =>
          /\ Cardinality(runner'.pending) <= 1
          /\ runner'.completed # runner.completed =>
                /\ runner'.pending = {runner'.timer}
                /\ runner'.timer = runner.nextId
                /\ runner'.timer \notin runner.pending]_vars

\* callbacks ended after a rejected day, after a resolved and after a
\* rejected run, and reschedule() was called during a run
C25_Witness ==
    /\ RunnerOn
    /\ {"filtered", "resolved", "rejected"} \subseteq runner.outcomes
    /\ runner.rescheduledInRun
    /\ Cardinality(runner.pending) = 1

\* C30: once stop() was called, and unless reschedule() is called after it,
\* fn is not started again.
C30_NoRunAfterStop ==
    RunnerOn => ~runner.startedAfterStop

\* C26: a weekly ticket lists one entry for every input task, and its
\* 'GESAMT' line prints the number of input tasks, also when a task has a due
\* value that is not a parseable date.
C26_EveryTaskInOneBucket ==
    WeeklyDone =>
        LET ticket == btickets[1]
        IN  /\ Len(PartsOf(ticket, "title")) = Len(breq.tasks)
            /\ PartsOf(ticket, "total")[1].bytes = TotalLine(Len(breq.tasks))

\* the commands of a ticket that switch the mode `kind` ("inverse",
\* "emphasis" or "size"), in order, as TRUE for on and FALSE for off; for the
\* text size, on is any size other than 1x1
ToggleCmds(ticket, kind) ==
    LET lead == IF kind = "inverse" THEN <<GS, 66>>
                ELSE IF kind = "emphasis" THEN <<ESC, 69>>
                ELSE <<GS, 33>>
        cmds == SelectSeq(ticket,
                    LAMBDA p : Len(p.bytes) = 3 /\ SubSeq(p.bytes, 1, 2) = lead)
    IN  [i \in 1..Len(cmds) |-> cmds[i].bytes[3] # 0]

\* the positions of the cut commands of a ticket
CutAt(ticket) == {k \in 1..Len(ticket) : ticket[k].bytes = cut}

ToggleKinds == {"inverse", "emphasis", "size"}

\* C28: in every ticket of every builder, the commands that switch inverse
\* video, emphasis and the text size alternate on, off, on, off, beginning
\* with on, so that none is switched on twice or off without being on; and
\* at each cut command every one of them was last switched off.
C28_TogglesBalanced ==
    bpc = "done" =>
        \A n \in 1..Len(btickets) : \A kind \in ToggleKinds :
            /\ CutAt(btickets[n]) # {}
            /\ \A i \in 1..Len(ToggleCmds(btickets[n], kind)) :
                  ToggleCmds(btickets[n], kind)[i] = (i % 2 = 1)
            /\ \A k \in CutAt(btickets[n]) :
                  Len(ToggleCmds(SubSeq(btickets[n], 1, k), kind)) % 2 = 0

\* a daily list of two tasks was built: emphasis was switched on and off for
\* each of them, inverse video and the double width for the header
C28_Witness ==
    /\ bpc = "done"
    /\ breq.op = "printTasks"
    /\ printMode(breq) = "daily"
    /\ Len(btickets) = 1
    /\ ToggleCmds(btickets[1], "emphasis") = <<TRUE, FALSE, TRUE, FALSE>>
    /\ ToggleCmds(btickets[1], "inverse") = <<TRUE, FALSE>>
    /\ ToggleCmds(btickets[1], "size") = <<TRUE, FALSE>>

\* the alignment commands among the first k parts of a ticket
AlignCmds(ticket, k) ==
    SelectSeq(SubSeq(ticket, 1, k),
              LAMBDA p : Len(p.bytes) = 3 /\ SubSeq(p.bytes, 1, 2) = <<ESC, 97>>)

\* whether left alignment is in effect at part k of a ticket: the last
\* alignment command before it, if any, is align('left') (init sets left)
LeftAlignedAt(ticket, k) ==
    LET cmds == AlignCmds(ticket, k)
    IN  cmds = <<>> \/ cmds[Len(cmds)].bytes = align("left")

\* C29: in a weekly ticket every bucket header and every line of a task
\* entry (title line, continuation line, label line), those of the
\* 'OHNE DATUM' bucket included, is emitted while left alignment is in
\* effect, whether or not the ticket has a dated bucket.
C29_WeeklyLinesLeftAligned ==
    WeeklyDone =>
        \A k \in 1..Len(btickets[1]) :
            btickets[1][k].role \in {"bucket", "title", "cont", "labels"} =>
                LeftAlignedAt(btickets[1], k)

\* whether call c is a print call that passed validation: it made its
\* connection
PassedValidation(c) == IsPrintCall(c) /\ call[c].created > 0

\* C27 (outcome): a print call that passed validation is pending until the
\* first of a confirmed write, a socket error and a timeout, and from then on
\* it has the outcome of that event, whatever arrives later: resolved on a
\* confirmed write, rejected with 'Printer error: ...' on an error, rejected
\* with 'Printer connection timed out' on a timeout.
C27_FirstEventDecides ==
    \A c \in 1..ncalls :
        PassedValidation(c) =>
            LET e == EventsOf(call[c].ev, {"flushed", "error", "timeout"}) IN
            /\ e = <<>> => call[c].promise = "pending"
            /\ e # <<>> =>
                /\ e[1].type = "flushed" =>
                      call[c].promise = "resolved" /\ call[c].value = <<"undefined">>
                /\ e[1].type = "error" =>
                      /\ call[c].promise = "rejected"
                      /\ call[c].value = <<"Error", "Printer error: ", ErrText(e[1].err)>>
                /\ e[1].type = "timeout" =>
                      /\ call[c].promise = "rejected"
                      /\ call[c].value = <<"Error", "Printer connection timed out">>

\* C27 (exactly once): a settled call keeps its state and its value
C27_SettlesOnce ==
    [][\A c \in 1..ncalls :
          (PassedValidation(c) /\ call[c].promise # "pending") =>
              /\ call'[c].promise = call[c].promise
              /\ call'[c].value = call[c].value]_vars

\* C27 (progress): with sockets that deliver their events, a print call that
\* passed validation eventually resolves or rejects
C27_EventuallySettles ==
    \A c \in 1..NumCalls :
        (PassedValidation(c) /\ call[c].promise = "pending")
            ~> (PassedValidation(c) /\ call[c].promise # "pending")

====
